---- MODULE Spec2Model ----
(***************************************************************************)
(* Model of the ticker-mention pipeline of the market dashboard backend:   *)
(*   backend/services/reddit.js  extractTickers, fetchSubredditPosts,      *)
(*                               aggregateMentions, getTrendingTickers     *)
(*   backend/services/market.js  getTrendingStocks, getDefaultTrendingStocks*)
(*   backend/yahoo.js            fetchQuote                                *)
(*                                                                         *)
(* Strings are sequences of one-character strings, so that the regular     *)
(* expressions of extractTickers can be evaluated character by character.  *)
(* JavaScript values that reach a function whose parameter is untyped are  *)
(* records [t, s, a, n]: t the type tag, s the text of a string, a the     *)
(* elements of an array, n the value of a number or boolean.               *)
(***************************************************************************)
EXTENDS Integers, Sequences, FiniteSets, TLC

VARIABLES
    arg,        \* a function called directly: the argument of the call
    ret,        \* a function called directly: what the call returned
    step,       \* a function called directly: "ready" | "returned" | "off"
    stored,     \* history: of the cache, key -> the last cache.set of the key;
                \* of aggregateMentions called directly, the argument as it
                \* was before the call
    now,        \* Date.now(), in seconds
    cache,      \* the NodeCache of reddit.js: key -> [v, t], t the expiry
    feed,       \* what Reddit serves: subreddit -> the children of hot.json
    pc,         \* where the getTrendingStocks pass stands
    calls,      \* the passes completed
    respKinds,  \* this pass: subreddit -> how its feed fetch ended
    postsArrays,\* this pass: subreddit -> the promise of fetchSubredditPosts
    tt,         \* this pass: the promise of getTrendingTickers
    path,       \* this pass: "reddit" | "default" | "none"
    topTickers, \* this pass: redditTrending.slice(0, 15)
    quoteEnv,   \* this pass: symbol -> how its quote fetch ends
    enriched,   \* this pass: the mappers of the quote batch settled so far
    result,     \* this pass: the promise of getTrendingStocks
    quoted      \* history of the passes returned: symbol -> when its quote
                \* was last fetched

pureVars == <<arg, ret, step, stored>>

pipeVars == <<now, cache, feed, pc, calls, respKinds, postsArrays, tt, path,
              topTickers, quoteEnv, enriched, result, quoted>>

vars == <<arg, ret, step, stored, now, cache, feed, pc, calls, respKinds,
          postsArrays, tt, path, topTickers, quoteEnv, enriched, result, quoted>>

(***************************************************************************)
(* Bounds of the inputs.                                                   *)
(***************************************************************************)
MaxTextLen == 6
MaxArrayLen == 1

\* the characters texts are drawn from: the cashtag mark, a non-word
\* character, a lower-case letter and two upper-case letters (AT, TA and A
\* are in the exclusion set; AA, TT, AAT, ... are not)
TextChars == {"$", " ", "x", "A", "T"}

(***************************************************************************)
(* Character classes of the regular expressions.                           *)
(***************************************************************************)
UpperChars ==
    {"A","B","C","D","E","F","G","H","I","J","K","L","M",
     "N","O","P","Q","R","S","T","U","V","W","X","Y","Z"}

LowerChars ==
    {"a","b","c","d","e","f","g","h","i","j","k","l","m",
     "n","o","p","q","r","s","t","u","v","w","x","y","z"}

DigitChars == {"0","1","2","3","4","5","6","7","8","9"}

\* \w
WordChars == UpperChars \cup LowerChars \cup DigitChars \cup {"_"}

IsWordAt(text, p) == p >= 1 /\ p <= Len(text) /\ text[p] \in WordChars

\* \b at the position between text[p-1] and text[p]
WordBoundary(text, p) == IsWordAt(text, p - 1) # IsWordAt(text, p)

\* [A-Z]{n} at text[i .. i+n-1]
UpperRun(text, i, n) ==
    /\ i + n - 1 <= Len(text)
    /\ \A k \in i .. (i + n - 1) : text[k] \in UpperChars

EXCLUDED_WORDS == {
    <<"A">>, <<"I">>, <<"A","M">>, <<"A","N">>, <<"A","N","D">>, <<"A","R","E">>, <<"A","S">>, <<"A","T">>, <<"B","E">>, <<"B","Y">>, <<"C","A","N">>, <<"D","O">>, <<"F","O","R">>,
    <<"F","R","O","M">>, <<"H","E">>, <<"I","F">>, <<"I","N">>, <<"I","S">>, <<"I","T">>, <<"M","E">>, <<"M","Y">>, <<"N","O">>, <<"N","O","T">>, <<"O","F">>, <<"O","N">>, <<"O","R">>,
    <<"O","U","T">>, <<"S","O">>, <<"T","H","E">>, <<"T","O">>, <<"U","P">>, <<"U","S">>, <<"W","E">>, <<"Y","O","U">>, <<"A","L","L">>, <<"C","E","O">>, <<"C","F","O">>, <<"C","T","O">>,
    <<"D","D">>, <<"E","D","I","T">>, <<"E","L","I">>, <<"F","A","Q">>, <<"F","Y","I">>, <<"I","M","O">>, <<"I","P","O">>, <<"N","E","W">>, <<"N","O","W">>, <<"O","L","D">>, <<"S","E","C">>,
    <<"T","L">>, <<"U","S","D">>, <<"W","S","B">>, <<"Y","T","D">>, <<"Y","O","L","O">>, <<"D","D">>, <<"T","A">>, <<"A","T","H">>, <<"E","O","D">>, <<"A","H">>, <<"P","M">>, <<"I","M","O">>,
    <<"T","L","D","R">>, <<"E","T","A">>, <<"N","S","F","W">>, <<"O","C">>, <<"O","P">>, <<"P","S","A">>, <<"T","I","L">>, <<"F","O","M","O">>, <<"F","U","D">>, <<"H","O","D","L">>, <<"A","P","E">> }

(***************************************************************************)
(* JavaScript values and the two coercions extractTickers applies to its   *)
(* argument: ToBoolean in `!text`, ToString in RegExp.prototype.exec.      *)
(***************************************************************************)
JsString(s)  == [t |-> "string",    s |-> s,    a |-> <<>>, n |-> 0]
JsNull       == [t |-> "null",      s |-> <<>>, a |-> <<>>, n |-> 0]
JsUndefined  == [t |-> "undefined", s |-> <<>>, a |-> <<>>, n |-> 0]
JsNumber(n)  == [t |-> "number",    s |-> <<>>, a |-> <<>>, n |-> n]
JsBoolean(b) == [t |-> "boolean",   s |-> <<>>, a |-> <<>>, n |-> IF b THEN 1 ELSE 0]
JsArray(a)   == [t |-> "array",     s |-> <<>>, a |-> a,    n |-> 0]
JsObject     == [t |-> "object",    s |-> <<>>, a |-> <<>>, n |-> 0]
JsSymbol     == [t |-> "symbol",    s |-> <<>>, a |-> <<>>, n |-> 0]

ToBoolean(v) ==
    CASE v.t = "string"    -> Len(v.s) > 0
      [] v.t = "null"      -> FALSE
      [] v.t = "undefined" -> FALSE
      [] v.t = "number"    -> v.n # 0
      [] v.t = "boolean"   -> v.n = 1
      [] OTHER             -> TRUE

DigitOf(d) == <<"0","1","2","3","4","5","6","7","8","9">>[d + 1]

RECURSIVE NumberToString(_)
NumberToString(n) ==
    IF n < 0 THEN <<"-">> \o NumberToString(0 - n)
    ELSE IF n < 10 THEN <<DigitOf(n)>>
    ELSE NumberToString(n \div 10) \o <<DigitOf(n % 10)>>

\* Array.prototype.join(",") over an array of strings
RECURSIVE JoinComma(_)
JoinComma(a) ==
    IF Len(a) = 0 THEN <<>>
    ELSE IF Len(a) = 1 THEN a[1]
    ELSE a[1] \o <<",">> \o JoinComma(Tail(a))

\* ToString (the abstract operation): [threw, s]; a Symbol cannot be converted (TypeError)
JsToString(v) ==
    CASE v.t = "string"    -> [threw |-> FALSE, s |-> v.s]
      [] v.t = "null"      -> [threw |-> FALSE, s |-> <<"n","u","l","l">>]
      [] v.t = "undefined" -> [threw |-> FALSE, s |-> <<"u","n","d","e","f","i","n","e","d">>]
      [] v.t = "number"    -> [threw |-> FALSE, s |-> NumberToString(v.n)]
      [] v.t = "boolean"   -> [threw |-> FALSE,
                               s |-> IF v.n = 1 THEN <<"t","r","u","e">>
                                     ELSE <<"f","a","l","s","e">>]
      [] v.t = "array"     -> [threw |-> FALSE, s |-> JoinComma(v.a)]
      [] v.t = "object"    -> [threw |-> FALSE,
                               s |-> <<"[","o","b","j","e","c","t"," ","O","b","j","e","c","t","]">>]
      [] OTHER             -> [threw |-> TRUE, s |-> <<>>]

(***************************************************************************)
(* extractTickers                                                          *)
(***************************************************************************)
InSeq(x, seq) == \E k \in 1 .. Len(seq) : seq[k] = x

\* a slip of the collection: an array pushed to instead of a Set
SetAddAlways(seq, x) == Append(seq, x)

\* Set.prototype.add, the Set kept in insertion order
SetAdd(seq, x) == IF InSeq(x, seq) THEN seq ELSE Append(seq, x)

\* a slip of the pattern: no \b after the group
CashtagMatchAtNoBoundary(text, i) ==
    IF i > Len(text) \/ text[i] # "$" THEN 0
    ELSE LET ok(n) == UpperRun(text, i + 1, n)
         IN  IF ok(5) THEN 5 ELSE IF ok(4) THEN 4 ELSE IF ok(3) THEN 3
             ELSE IF ok(2) THEN 2 ELSE IF ok(1) THEN 1 ELSE 0

\* /\$([A-Z]{1,5})\b/ anchored at text[i]: the length of the group of the
\* first alternative the greedy quantifier finds (5 down to 1), 0 if none
CashtagMatchAt(text, i) ==
    IF i > Len(text) \/ text[i] # "$" THEN 0
    ELSE LET ok(n) == UpperRun(text, i + 1, n) /\ WordBoundary(text, i + 1 + n)
         IN  IF ok(5) THEN 5 ELSE IF ok(4) THEN 4 ELSE IF ok(3) THEN 3
             ELSE IF ok(2) THEN 2 ELSE IF ok(1) THEN 1 ELSE 0

\* /\b([A-Z]{2,5})\b/ anchored at text[i]
BareMatchAt(text, i) ==
    IF i > Len(text) \/ ~WordBoundary(text, i) THEN 0
    ELSE LET ok(n) == UpperRun(text, i, n) /\ WordBoundary(text, i + n)
         IN  IF ok(5) THEN 5 ELSE IF ok(4) THEN 4 ELSE IF ok(3) THEN 3
             ELSE IF ok(2) THEN 2 ELSE 0

\* the exec loop of the cashtag pattern, from lastIndex i
RECURSIVE CashtagLoop(_, _, _)
CashtagLoop(text, i, tickers) ==
    IF i > Len(text) THEN tickers
    ELSE LET n == CashtagMatchAt(text, i)
         IN  IF n = 0 THEN CashtagLoop(text, i + 1, tickers)
             ELSE CashtagLoop(text, i + 1 + n,
                              SetAdd(tickers, SubSeq(text, i + 1, i + n)))

\* the bare pattern keeps every match
BareAcceptAll(ticker) == TRUE

\* the filter of a bare match
BareAccept(ticker) ==
    ticker \notin EXCLUDED_WORDS /\ Len(ticker) >= 2 /\ Len(ticker) <= 5

\* the exec loop of the bare pattern, from lastIndex i
RECURSIVE BareLoop(_, _, _)
BareLoop(text, i, tickers) ==
    IF i > Len(text) THEN tickers
    ELSE LET n == BareMatchAt(text, i)
         IN  IF n = 0 THEN BareLoop(text, i + 1, tickers)
             ELSE LET ticker == SubSeq(text, i, i + n - 1)
                  IN  BareLoop(text, i + n,
                               IF BareAccept(ticker) THEN SetAdd(tickers, ticker)
                               ELSE tickers)

\* extractTickers(text): [threw, value]
extractTickers(text) ==
    IF ~ToBoolean(text) THEN [threw |-> FALSE, value |-> <<>>]
    ELSE LET str == JsToString(text)
         IN  IF str.threw THEN [threw |-> TRUE, value |-> <<>>]
             ELSE [threw |-> FALSE,
                   value |-> BareLoop(str.s, 1, CashtagLoop(str.s, 1, <<>>))]

(***************************************************************************)
(* The inputs of extractTickers.                                           *)
(***************************************************************************)
\* the pipeline at rest, for the specifications of the pure functions
PipeOff ==
    /\ now = 0
    /\ cache = <<>>
    /\ feed = <<>>
    /\ pc = "off"
    /\ calls = 0
    /\ respKinds = <<>>
    /\ postsArrays = <<>>
    /\ tt = <<>>
    /\ path = "none"
    /\ topTickers = <<>>
    /\ quoteEnv = <<>>
    /\ enriched = <<>>
    /\ result = <<>>
    /\ quoted = <<>>

\* the elements of the arrays passed in place of a string
ArrayElems == {<<"A","A">>, <<"$","A","T">>, <<"x">>}

RECURSIVE ArraysOfLen(_)
ArraysOfLen(n) ==
    IF n = 0 THEN {<<>>}
    ELSE {Append(a, e) : a \in ArraysOfLen(n - 1), e \in ArrayElems}

NonStrings ==
    {JsNull, JsUndefined, JsNumber(0), JsNumber(7), JsNumber(-12),
     JsBoolean(FALSE), JsBoolean(TRUE), JsObject, JsSymbol}
    \cup {JsArray(a) : a \in UNION {ArraysOfLen(n) : n \in 0 .. MaxArrayLen}}

NoRet == [threw |-> FALSE, value |-> <<>>]

\* the caller holds the empty string or a value that is not a string
InitExtract ==
    /\ arg \in {JsString(<<>>)} \cup NonStrings
    /\ ret = NoRet
    /\ step = "ready"
    /\ stored = <<>>
    /\ PipeOff

\* the caller's text grows by one character, up to MaxTextLen
ExtractType ==
    /\ step = "ready"
    /\ arg.t = "string"
    /\ Len(arg.s) < MaxTextLen
    /\ \E c \in TextChars : arg' = JsString(Append(arg.s, c))
    /\ UNCHANGED <<ret, step, stored>>
    /\ UNCHANGED pipeVars

ExtractCall ==
    /\ step = "ready"
    /\ ret' = extractTickers(arg)
    /\ step' = "returned"
    /\ UNCHANGED <<arg, stored>>
    /\ UNCHANGED pipeVars

NextExtract == ExtractType \/ ExtractCall

SpecExtract == InitExtract /\ [][NextExtract]_vars

\* does sym occur in text at i as a cashtag: "$", the symbol, and then no
\* further upper-case letter
CashtagRunAt(text, i, sym) ==
    /\ i >= 1 /\ i + Len(sym) <= Len(text)
    /\ text[i] = "$"
    /\ SubSeq(text, i + 1, i + Len(sym)) = sym
    /\ (i + Len(sym) + 1 <= Len(text) => text[i + Len(sym) + 1] \notin UpperChars)

\* the same, the symbol ending the text or followed by a non-word character
CashtagTokenAt(text, i, sym) ==
    /\ CashtagRunAt(text, i, sym)
    /\ (i + Len(sym) + 1 <= Len(text) => text[i + Len(sym) + 1] \notin WordChars)

\* does sym occur in text at i as a bare token
BareTokenAt(text, i, sym) ==
    /\ i >= 1 /\ i + Len(sym) - 1 <= Len(text)
    /\ SubSeq(text, i, i + Len(sym) - 1) = sym
    /\ (i > 1 => text[i - 1] \notin WordChars)
    /\ (i + Len(sym) <= Len(text) => text[i + Len(sym)] \notin WordChars)

ExtractReturned == step = "returned" /\ arg.t = "string"

\* C9 as stated: for every text, a symbol of the exclusion set is returned
\* when it occurs as a cashtag ("$" immediately followed by the symbol) and
\* is not returned when it occurs only as a bare token
C9_ExcludedIffCashtagRun ==
    ExtractReturned =>
        \A sym \in EXCLUDED_WORDS :
            InSeq(sym, ret.value)
                <=> \E i \in 1 .. Len(arg.s) : CashtagRunAt(arg.s, i, sym)

\* C9 amended: for every text, a symbol of the exclusion set is returned if
\* and only if it occurs as a cashtag that ends at a word boundary ("$", the
\* symbol, then the end of the text or a non-word character); a bare
\* occurrence never makes it returned
C9_ExcludedIffCashtagToken ==
    ExtractReturned =>
        /\ ~ret.threw
        /\ \A sym \in EXCLUDED_WORDS :
            InSeq(sym, ret.value)
                <=> \E i \in 1 .. Len(arg.s) : CashtagTokenAt(arg.s, i, sym)

\* one excluded symbol returned for its cashtag while another, present as a
\* bare token only, is left out
C9_Witness ==
    /\ ExtractReturned
    /\ \E s1, s2 \in EXCLUDED_WORDS :
        /\ s1 # s2
        /\ \E i \in 1 .. Len(arg.s) : CashtagTokenAt(arg.s, i, s1)
        /\ InSeq(s1, ret.value)
        /\ \E i \in 1 .. Len(arg.s) : BareTokenAt(arg.s, i, s2)
        /\ ~InSeq(s2, ret.value)

\* C10: called with an empty string, null, undefined or any value that is
\* not a string, extractTickers returns an empty result and does not throw
C10_EmptyOnMalformedInput ==
    (step = "returned" /\ (arg.t # "string" \/ arg.s = <<>>)) =>
        (~ret.threw /\ ret.value = <<>>)

\* the pieces of text
Pieces(text) == {SubSeq(text, i, j) : i \in 1 .. Len(text), j \in 1 .. Len(text)}

AllUpper(sym) == \A k \in 1 .. Len(sym) : sym[k] \in UpperChars

\* (a) the runs of 1 to 5 upper-case letters right after a "$" and followed
\* by a word boundary
CashtagSymbols(text) ==
    {sym \in Pieces(text) :
        /\ Len(sym) >= 1 /\ Len(sym) <= 5 /\ AllUpper(sym)
        /\ \E i \in 1 .. Len(text) : CashtagTokenAt(text, i, sym)}

\* (b) the runs of 2 to 5 upper-case letters with a word boundary on both
\* sides that are not in the exclusion set
BareSymbols(text) ==
    {sym \in Pieces(text) :
        /\ Len(sym) >= 2 /\ Len(sym) <= 5 /\ AllUpper(sym)
        /\ sym \notin EXCLUDED_WORDS
        /\ \E i \in 1 .. Len(text) : BareTokenAt(text, i, sym)}

\* a run of exactly n upper-case letters with a word boundary on both sides
\* and no "$" before it
BareRunOf(text, n) ==
    \E i \in 1 .. Len(text) :
        /\ i + n - 1 <= Len(text)
        /\ AllUpper(SubSeq(text, i, i + n - 1))
        /\ BareTokenAt(text, i, SubSeq(text, i, i + n - 1))

\* C20: for every text, extractTickers returns exactly the symbols of (a)
\* and (b), each once; a text whose only upper-case letters are bare single
\* letters or runs of 6 or more yields no symbol
C20_ExactlyCashtagsAndBareTokens ==
    ExtractReturned =>
        /\ ~ret.threw
        /\ {ret.value[k] : k \in 1 .. Len(ret.value)}
              = CashtagSymbols(arg.s) \cup BareSymbols(arg.s)
        /\ \A j, k \in 1 .. Len(ret.value) : ret.value[j] = ret.value[k] => j = k
        /\ ((\A k \in 1 .. Len(arg.s) : arg.s[k] # "$")
               /\ (\A n \in 2 .. 5 : ~BareRunOf(arg.s, n)))
              => ret.value = <<>>

\* a single letter returned for its cashtag, then a symbol returned for a
\* bare token
C20_Witness ==
    /\ ExtractReturned
    /\ Len(ret.value) = 2
    /\ Len(ret.value[1]) = 1
    /\ ret.value[1] \in CashtagSymbols(arg.s) \ BareSymbols(arg.s)
    /\ ret.value[2] \in BareSymbols(arg.s) \ CashtagSymbols(arg.s)

(***************************************************************************)
(* aggregateMentions                                                       *)
(*                                                                         *)
(* A post is [title, url, upvotes, comments, tickers].  Weighted scores    *)
(* are kept in millionths (weightedScore) and the rounded score in         *)
(* hundredths (score), so that both are integers.                          *)
(***************************************************************************)
RECURSIVE SumSeq(_)
SumSeq(ns) == IF Len(ns) = 0 THEN 0 ELSE ns[1] + SumSeq(Tail(ns))

Max(a, b) == IF a >= b THEN a ELSE b

\* Math.log10(x) in millionths, for the operands the posts of the model
\* produce
Log10Micro(x) ==
    CASE x = 2   -> 301030
      [] x = 10  -> 1000000
      [] x = 100 -> 2000000
      [] x = 101 -> 2004321

\* Math.round(w * 100) / 100, w in millionths, the result in hundredths
RoundHundredths(w) == (w + 5000) \div 10000

\* a slip of the sort: equal keys come out in reverse order
RECURSIVE SortPermDescUnstable(_, _)
SortPermDescUnstable(keys, n) ==
    IF n = 0 THEN <<>>
    ELSE LET p == SortPermDescUnstable(keys, n - 1)
             pos == Cardinality({j \in 1 .. Len(p) : keys[p[j]] > keys[n]})
         IN  SubSeq(p, 1, pos) \o <<n>> \o SubSeq(p, pos + 1, Len(p))

\* the indices 1..n of keys in the order of a stable sort, largest key first
RECURSIVE SortPermDesc(_, _)
SortPermDesc(keys, n) ==
    IF n = 0 THEN <<>>
    ELSE LET p == SortPermDesc(keys, n - 1)
             pos == Cardinality({j \in 1 .. Len(p) : keys[p[j]] >= keys[n]})
         IN  SubSeq(p, 1, pos) \o <<n>> \o SubSeq(p, pos + 1, Len(p))

\* Array.prototype.sort((a, b) => key(b) - key(a)); keys[i] is the key of seq[i]
StableSortDesc(seq, keys) ==
    LET p == SortPermDesc(keys, Len(seq))
    IN  [i \in 1 .. Len(seq) |-> seq[p[i]]]

\* Map.prototype.has / get on the Map kept as a sequence in insertion order
MapIndex(m, ticker) ==
    IF \E k \in 1 .. Len(m) : m[k].ticker = ticker
    THEN CHOOSE k \in 1 .. Len(m) : m[k].ticker = ticker
    ELSE 0

\* a slip of the weight: the upvotes themselves, neither clamped nor scaled
upvoteWeightRaw(post) == post.upvotes * 1000000

upvoteWeight(post) == Log10Micro(Max(post.upvotes, 1) + 1)

PostSummary(post) ==
    [title |-> post.title, url |-> post.url,
     upvotes |-> post.upvotes, comments |-> post.comments]

NewMention(ticker) ==
    [ticker |-> ticker, count |-> 0, weightedScore |-> 0, posts |-> <<>>]

\* a slip of the inner loop: a fresh entry for every occurrence
AddOccurrenceNoHas(m, post, ticker) ==
    Append(m, [ticker |-> ticker, count |-> 1,
               weightedScore |-> upvoteWeight(post),
               posts |-> <<PostSummary(post)>>])

\* a slip of the inner loop: the count set instead of incremented
AddOccurrenceCountSet(m, post, ticker) ==
    LET m1 == IF MapIndex(m, ticker) = 0 THEN Append(m, NewMention(ticker)) ELSE m
        k  == MapIndex(m1, ticker)
    IN  [m1 EXCEPT ![k] =
            [ticker |-> @.ticker,
             count |-> 1,
             weightedScore |-> @.weightedScore + upvoteWeight(post),
             posts |-> Append(@.posts, PostSummary(post))]]

\* a slip of the inner loop: the weight assigned instead of added
AddOccurrenceScoreSet(m, post, ticker) ==
    LET m1 == IF MapIndex(m, ticker) = 0 THEN Append(m, NewMention(ticker)) ELSE m
        k  == MapIndex(m1, ticker)
    IN  [m1 EXCEPT ![k] =
            [ticker |-> @.ticker,
             count |-> @.count + 1,
             weightedScore |-> upvoteWeight(post),
             posts |-> Append(@.posts, PostSummary(post))]]

\* the body of the inner forEach for one (post, ticker) occurrence
AddOccurrence(m, post, ticker) ==
    LET m1 == IF MapIndex(m, ticker) = 0 THEN Append(m, NewMention(ticker)) ELSE m
        k  == MapIndex(m1, ticker)
    IN  [m1 EXCEPT ![k] =
            [ticker |-> @.ticker,
             count |-> @.count + 1,
             weightedScore |-> @.weightedScore + upvoteWeight(post),
             posts |-> Append(@.posts, PostSummary(post))]]

\* post.tickers.forEach from the j-th ticker on
RECURSIVE ForEachTicker(_, _, _)
ForEachTicker(m, post, j) ==
    IF j > Len(post.tickers) THEN m
    ELSE ForEachTicker(AddOccurrence(m, post, post.tickers[j]), post, j + 1)

\* posts.forEach from the i-th post on
RECURSIVE ForEachPost(_, _, _)
ForEachPost(m, posts, i) ==
    IF i > Len(posts) THEN m
    ELSE ForEachPost(ForEachTicker(m, posts[i], 1), posts, i + 1)

\* a slip of the choice: the last of the posts with the most upvotes
TopPostLast(posts) ==
    LET best == {i \in 1 .. Len(posts) :
                    \A j \in 1 .. Len(posts) : posts[j].upvotes <= posts[i].upvotes}
    IN  posts[CHOOSE i \in best : \A j \in best : j <= i]

\* data.posts.sort((a, b) => b.upvotes - a.upvotes)[0]
TopPost(posts) ==
    StableSortDesc(posts, [i \in 1 .. Len(posts) |-> posts[i].upvotes])[1]

MentionEntry(data) ==
    [ticker |-> data.ticker,
     mentions |-> data.count,
     score |-> RoundHundredths(data.weightedScore),
     topPost |-> TopPost(data.posts)]

aggregateMentions(posts) ==
    LET mentionMap == ForEachPost(<<>>, posts, 1)
        mapped == [k \in 1 .. Len(mentionMap) |-> MentionEntry(mentionMap[k])]
    IN  StableSortDesc(mapped, [k \in 1 .. Len(mapped) |-> mapped[k].score])

\* a slip of the choice of the top post: the sort run on the argument
aggregateMentionsArgSorted(posts) ==
    StableSortDesc(posts, [i \in 1 .. Len(posts) |-> posts[i].upvotes])

\* the argument after the call.  The statements that write are
\* mentionMap.set, data.count += 1, data.weightedScore += upvoteWeight,
\* data.posts.push and the two sorts; they act on the Map, on the data
\* objects and the data.posts arrays the function creates (the pushed
\* summaries are fresh objects) and on the array map() returns: none acts
\* on posts, on a post or on post.tickers
aggregateMentionsArg(posts) == posts

(***************************************************************************)
(* The inputs of aggregateMentions: sequences of at most MaxAggPosts       *)
(* tagged posts.                                                           *)
(***************************************************************************)
MaxAggPosts == 3

AA == <<"A","A">>
TT == <<"T","T">>

AggTickerLists == {<<>>, <<AA>>, <<TT>>, <<TT, AA>>}
AggUpvotes == {-5, 0, 99, 100}

\* title + " " + selftext of a post whose tickers are the given ones
RECURSIVE JoinSpace(_)
JoinSpace(a) ==
    IF Len(a) = 0 THEN <<>>
    ELSE IF Len(a) = 1 THEN a[1]
    ELSE a[1] \o <<" ">> \o JoinSpace(Tail(a))

AggPosts ==
    {[title |-> JoinSpace(ts), url |-> JoinSpace(ts), upvotes |-> u,
      comments |-> 0, tickers |-> ts] : ts \in AggTickerLists, u \in AggUpvotes}

InitAgg ==
    /\ arg = <<>>
    /\ ret = <<>>
    /\ step = "ready"
    /\ stored = <<>>
    /\ PipeOff

\* the caller's post sequence grows by one post, up to MaxAggPosts
AggAddPost ==
    /\ step = "ready"
    /\ Len(arg) < MaxAggPosts
    /\ \E p \in AggPosts : arg' = Append(arg, p)
    /\ UNCHANGED <<ret, step, stored>>
    /\ UNCHANGED pipeVars

AggregateCall ==
    /\ step = "ready"
    /\ ret' = aggregateMentions(arg)
    /\ arg' = aggregateMentionsArg(arg)
    /\ stored' = arg
    /\ step' = "returned"
    /\ UNCHANGED pipeVars

NextAgg == AggAddPost \/ AggregateCall

SpecAgg == InitAgg /\ [][NextAgg]_vars

\* the tickers that occur in the posts
TickersOf(posts) ==
    UNION {{posts[i].tickers[j] : j \in 1 .. Len(posts[i].tickers)} :
           i \in 1 .. Len(posts)}

\* the number of (post, ticker) occurrences
Occurrences(posts) == SumSeq([i \in 1 .. Len(posts) |-> Len(posts[i].tickers)])

\* C7: aggregateMentions returns exactly one entry per distinct ticker of
\* the posts: no ticker twice, none missing, none invented, and every entry
\* has mentions >= 1
C7_OneEntryPerTicker ==
    step = "returned" =>
        /\ \A i, j \in 1 .. Len(ret) : ret[i].ticker = ret[j].ticker => i = j
        /\ {ret[i].ticker : i \in 1 .. Len(ret)} = TickersOf(arg)
        /\ \A i \in 1 .. Len(ret) : ret[i].mentions >= 1

\* two distinct tickers aggregated, one of them mentioned by several posts
C7_Witness ==
    /\ step = "returned"
    /\ Len(ret) = 2
    /\ \E i, j \in 1 .. Len(arg) :
        i # j /\ InSeq(AA, arg[i].tickers) /\ InSeq(AA, arg[j].tickers)

\* C8: for every non-empty post sequence the mentions of the entries sum to
\* the number of (post, ticker) occurrences of the input
C8_MentionsSumToOccurrences ==
    (step = "returned" /\ Len(arg) > 0) =>
        SumSeq([i \in 1 .. Len(ret) |-> ret[i].mentions]) = Occurrences(arg)

\* three posts, four occurrences, one post carrying two of them
C8_Witness ==
    /\ step = "returned"
    /\ Len(arg) = 3
    /\ Occurrences(arg) = 4
    /\ SumSeq([i \in 1 .. Len(ret) |-> ret[i].mentions]) = 4

\* the permutations of 1 .. n
Perms(n) == {f \in [1 .. n -> 1 .. n] : \A i, j \in 1 .. n : f[i] = f[j] => i = j}

\* ticker, mentions and score of every entry
Totals(entries) ==
    {[ticker |-> entries[i].ticker, mentions |-> entries[i].mentions,
      score |-> entries[i].score] : i \in 1 .. Len(entries)}

ScoreIn(entries, ticker) ==
    IF \E i \in 1 .. Len(entries) : entries[i].ticker = ticker
    THEN entries[CHOOSE i \in 1 .. Len(entries) : entries[i].ticker = ticker].score
    ELSE 0

\* C17: for every post sequence P and every post q appended to it, whatever
\* its upvotes, every ticker q mentions has a score in the result for
\* P + [q] that is not less than its score in the result for P, and the
\* weight q adds is positive
C17_ScoreNeverDecreases ==
    (step = "returned" /\ Len(arg) > 0) =>
        LET P == SubSeq(arg, 1, Len(arg) - 1)
            q == arg[Len(arg)]
        IN  /\ upvoteWeight(q) > 0
            /\ \A j \in 1 .. Len(q.tickers) :
                  ScoreIn(ret, q.tickers[j]) >= ScoreIn(aggregateMentions(P), q.tickers[j])

\* a post with negative upvotes is appended to posts that mention its
\* ticker already, and the score of the ticker grows
C17_Witness ==
    /\ step = "returned"
    /\ Len(arg) = 3
    /\ arg[3].upvotes < 0
    /\ InSeq(AA, arg[3].tickers)
    /\ ScoreIn(aggregateMentions(SubSeq(arg, 1, 2)), AA) > 0
    /\ ScoreIn(ret, AA) > ScoreIn(aggregateMentions(SubSeq(arg, 1, 2)), AA)

\* the weighted score the posts give ticker, in millionths
WeightedOf(posts, ticker) ==
    SumSeq([i \in 1 .. Len(posts) |->
               IF InSeq(ticker, posts[i].tickers) THEN upvoteWeight(posts[i]) ELSE 0])

\* when ticker is first met: the post, then the place in the post
FirstSeen(posts, ticker) ==
    LET i == CHOOSE i \in 1 .. Len(posts) :
                 /\ InSeq(ticker, posts[i].tickers)
                 /\ \A k \in 1 .. (i - 1) : ~InSeq(ticker, posts[k].tickers)
        j == CHOOSE j \in 1 .. Len(posts[i].tickers) : posts[i].tickers[j] = ticker
    IN  <<i, j>>

SeenBefore(posts, t1, t2) ==
    LET a == FirstSeen(posts, t1)
        b == FirstSeen(posts, t2)
    IN  a[1] < b[1] \/ (a[1] = b[1] /\ a[2] < b[2])

C19_TopPostIsFirstMax ==
    step = "returned" =>
        \A k \in 1 .. Len(ret) :
            \E i \in 1 .. Len(arg) :
                /\ InSeq(ret[k].ticker, arg[i].tickers)
                /\ ret[k].topPost = PostSummary(arg[i])
                /\ \A j \in 1 .. Len(arg) :
                      InSeq(ret[k].ticker, arg[j].tickers) =>
                          /\ arg[j].upvotes <= arg[i].upvotes
                          /\ (j < i => arg[j].upvotes < arg[i].upvotes)

\* three posts mention the ticker; the two last, which differ, share the
\* most upvotes, and the second is the top post
C19_Witness ==
    /\ step = "returned"
    /\ Len(arg) = 3
    /\ \A i \in 1 .. 3 : InSeq(AA, arg[i].tickers)
    /\ arg[1].upvotes < arg[2].upvotes
    /\ arg[2].upvotes = arg[3].upvotes
    /\ PostSummary(arg[2]) # PostSummary(arg[3])
    /\ \E k \in 1 .. Len(ret) :
          ret[k].ticker = AA /\ ret[k].topPost = PostSummary(arg[2])

MaxCalls == 2
MaxTime == 900
TickStep == 300

stdTTL == 600
TopCount == 15
PostLimit == 50

TrendingSubreddits == <<"wallstreetbets", "stocks">>

defaultSymbols ==
    << <<"T","S","L","A">>, <<"N","V","D","A">>, <<"A","A","P","L">>,
       <<"M","S","F","T">>, <<"G","O","O","G","L">>, <<"A","M","Z","N">>,
       <<"M","E","T","A">>, <<"A","M","D">>, <<"N","F","L","X">>,
       <<"S","P","Y">> >>

SeqRange(seq) == {seq[i] : i \in 1 .. Len(seq)}

\* a promise: status "pending" | "fulfilled" | "rejected"
Pending      == [status |-> "pending",   value |-> <<>>]
Fulfilled(v) == [status |-> "fulfilled", value |-> v]
Rejected     == [status |-> "rejected",  value |-> <<>>]

(***************************************************************************)
(* The cache (node-cache, stdTTL 600, keys never deleted by the program).  *)
(***************************************************************************)
redditKey(subreddit, limit) ==
    [op |-> "reddit", subs |-> <<subreddit>>, limit |-> limit]

\* the key of getTrendingTickers names the subreddits only
trendingKey(subreddits) ==
    [op |-> "trending", subs |-> subreddits, limit |-> 0]

\* cache.get(key) finds a value: the key is stored and has not expired
CacheHit(c, key, t) == key \in DOMAIN c /\ ~(c[key].t < t)

\* a slip of the cache: a hit renews the expiry of the key
CacheAfterGetTouch(c, key, t) ==
    IF key \in DOMAIN c /\ c[key].t < t
    THEN [k \in DOMAIN c \ {key} |-> c[k]]
    ELSE IF key \in DOMAIN c
    THEN [c EXCEPT ![key] = [v |-> @.v, t |-> t + stdTTL]]
    ELSE c

\* cache.get(key) drops the key it finds expired
CacheAfterGet(c, key, t) ==
    IF key \in DOMAIN c /\ c[key].t < t
    THEN [k \in DOMAIN c \ {key} |-> c[k]]
    ELSE c

\* cache.set(key, value)
CacheSet(c, key, value, t) ==
    [k \in DOMAIN c \cup {key} |->
        IF k = key THEN [v |-> value, t |-> t + stdTTL] ELSE c[k]]

(***************************************************************************)
(* fetchSubredditPosts                                                     *)
(***************************************************************************)
\* how the request to hot.json ends
RespKinds == {"network", "http429", "ok"}

\* posts.map(item => ...) for one child
ProcessPost(post) ==
    [id |-> post.id,
     title |-> post.title,
     url |-> post.permalink,
     upvotes |-> post.ups,
     comments |-> post.num_comments,
     tickers |-> extractTickers(
                    JsString(post.title \o <<" ">> \o post.selftext)).value]

HasTickers(post) == Len(post.tickers) > 0

\* the try block after the cache miss: [threw, value]
FetchTry(kind, children) ==
    IF kind = "ok"
    THEN [threw |-> FALSE,
          value |-> SelectSeq([i \in 1 .. Len(children) |-> ProcessPost(children[i])],
                              HasTickers)]
    ELSE [threw |-> TRUE, value |-> <<>>]

\* a slip of the catch block: the error is thrown on
FetchCatchRethrow(attempt) ==
    IF attempt.threw THEN [rejected |-> TRUE, value |-> <<>>, store |-> FALSE]
    ELSE [rejected |-> FALSE, value |-> attempt.value, store |-> TRUE]

\* try/catch of fetchSubredditPosts: [rejected, value, store], store saying
\* whether cache.set ran
FetchCatch(attempt) ==
    IF attempt.threw THEN [rejected |-> FALSE, value |-> <<>>, store |-> FALSE]
    ELSE [rejected |-> FALSE, value |-> attempt.value, store |-> TRUE]

(***************************************************************************)
(* fetchQuote and the two mappers of market.js                             *)
(***************************************************************************)
\* how a quote fetch ends.  "stub" is what fetchQuote of yahoo.js returns;
\* "reject", "priced" and "partial" are the other outcomes its callers are
\* written for: a rejection, a quote with a price, a quote without the
\* optional fields.
QuoteOutcomes == {"reject", "stub", "priced", "partial"}

fetchQuote(symbol, o) ==
    CASE o = "reject" ->
            [rejected |-> TRUE,
             quote |-> [longName |-> JsUndefined, shortName |-> JsUndefined,
                        regularMarketPrice |-> JsUndefined,
                        regularMarketChange |-> JsUndefined,
                        regularMarketChangePercent |-> JsUndefined,
                        regularMarketVolume |-> JsUndefined,
                        marketCap |-> JsUndefined]]
      [] o = "stub" ->
            [rejected |-> FALSE,
             quote |-> [longName |-> JsString(symbol), shortName |-> JsString(symbol),
                        regularMarketPrice |-> JsNull,
                        regularMarketChange |-> JsNull,
                        regularMarketChangePercent |-> JsNull,
                        regularMarketVolume |-> JsUndefined,
                        marketCap |-> JsNull]]
      [] o = "priced" ->
            [rejected |-> FALSE,
             quote |-> [longName |-> JsString(symbol), shortName |-> JsString(symbol),
                        regularMarketPrice |-> JsNumber(100),
                        regularMarketChange |-> JsNumber(-2),
                        regularMarketChangePercent |-> JsNumber(-2),
                        regularMarketVolume |-> JsNumber(5000),
                        marketCap |-> JsNumber(900)]]
      [] o = "partial" ->
            [rejected |-> FALSE,
             quote |-> [longName |-> JsUndefined, shortName |-> JsUndefined,
                        regularMarketPrice |-> JsUndefined,
                        regularMarketChange |-> JsUndefined,
                        regularMarketChangePercent |-> JsUndefined,
                        regularMarketVolume |-> JsUndefined,
                        marketCap |-> JsUndefined]]

\* a || b
JsOr(a, b) == IF ToBoolean(a) THEN a ELSE b

\* topPost: null
NullPost == [title |-> <<>>, url |-> <<>>, upvotes |-> 0, comments |-> 0]

\* the null a mapper of getDefaultTrendingStocks returns for a failed quote
NullStock ==
    [symbol |-> <<>>, name |-> JsNull, price |-> JsNull, change |-> JsNull,
     changePercent |-> JsNull, volume |-> JsNull, marketCap |-> JsNull,
     mentions |-> 0, socialScore |-> 0, topPost |-> NullPost, source |-> "null"]

RedditOnly(item) ==
    [symbol |-> item.ticker, name |-> JsString(item.ticker),
     price |-> JsNull, change |-> JsNull, changePercent |-> JsNull,
     volume |-> JsNull, marketCap |-> JsNull,
     mentions |-> item.mentions, socialScore |-> item.score,
     topPost |-> item.topPost, source |-> "reddit_only"]

\* the entry built from a fulfilled quote
RedditYahoo(item, quote) ==
    [symbol |-> item.ticker,
     name |-> JsOr(quote.longName, JsOr(quote.shortName, JsString(item.ticker))),
     price |-> quote.regularMarketPrice,
     change |-> quote.regularMarketChange,
     changePercent |-> quote.regularMarketChangePercent,
     volume |-> quote.regularMarketVolume,
     marketCap |-> quote.marketCap,
     mentions |-> item.mentions,
     socialScore |-> item.score,
     topPost |-> item.topPost,
     source |-> "reddit_yahoo"]

\* a slip of the mapper: no catch around the quote fetch
EnrichMapperNoCatch(item, o) ==
    LET q == fetchQuote(item.ticker, o)
    IN  [rejected |-> q.rejected, value |-> RedditYahoo(item, q.quote)]

\* a slip of the mapper: the failed quote gives null, as in the default list
EnrichMapperDrop(item, o) ==
    LET q == fetchQuote(item.ticker, o)
    IN  IF q.rejected THEN [rejected |-> FALSE, value |-> NullStock]
        ELSE [rejected |-> FALSE, value |-> RedditYahoo(item, q.quote)]

\* the mapper of getTrendingStocks for one candidate: [rejected, value]
EnrichMapper(item, o) ==
    LET q == fetchQuote(item.ticker, o)
    IN  IF q.rejected THEN [rejected |-> FALSE, value |-> RedditOnly(item)]
        ELSE [rejected |-> FALSE, value |-> RedditYahoo(item, q.quote)]

\* the entry of a default symbol built from a fulfilled quote
YahooDefault(symbol, quote) ==
    [symbol |-> symbol,
     name |-> JsOr(quote.longName, quote.shortName),
     price |-> quote.regularMarketPrice,
     change |-> quote.regularMarketChange,
     changePercent |-> quote.regularMarketChangePercent,
     volume |-> quote.regularMarketVolume,
     marketCap |-> quote.marketCap,
     mentions |-> 0,
     socialScore |-> 0,
     topPost |-> NullPost,
     source |-> "yahoo_default"]

\* a slip of the mapper: no catch around the quote fetch
DefaultMapperNoCatch(symbol, o) ==
    LET q == fetchQuote(symbol, o)
    IN  [rejected |-> q.rejected, value |-> YahooDefault(symbol, q.quote)]

\* the mapper of getDefaultTrendingStocks for one symbol: [rejected, value]
DefaultMapper(symbol, o) ==
    LET q == fetchQuote(symbol, o)
    IN  IF q.rejected THEN [rejected |-> FALSE, value |-> NullStock]
        ELSE [rejected |-> FALSE, value |-> YahooDefault(symbol, q.quote)]

\* a slip of the filter: every entry kept
HasPriceAlways(stock) == TRUE

\* a slip of the filter: the test for a missing price instead of a null one
HasPriceNotUndefined(stock) == stock.price # JsUndefined

\* stock => stock.price !== null
HasPrice(stock) == stock.price # JsNull

\* s => s !== null
NotNullStock(s) == s # NullStock

\* enrichedStocks.filter(...).sort((a, b) => b.socialScore - a.socialScore)
FilterAndSort(stocks) ==
    LET kept == SelectSeq(stocks, HasPrice)
    IN  StableSortDesc(kept, [i \in 1 .. Len(kept) |-> kept[i].socialScore])

\* a slip of the test: the fallback never taken
UseDefaultNever(redditTrending) == FALSE

\* redditTrending.length === 0
UseDefault(redditTrending) == Len(redditTrending) = 0

\* a slip of the cut: every aggregate kept
TopSliceAll(redditTrending) == redditTrending

\* redditTrending.slice(0, 15)
TopSlice(redditTrending) ==
    SubSeq(redditTrending, 1,
           IF Len(redditTrending) < TopCount THEN Len(redditTrending) ELSE TopCount)

(***************************************************************************)
(* What the pipeline is run against: the feeds Reddit serves and the       *)
(* outcomes of the quote fetches.                                          *)
(***************************************************************************)
RawPosts ==
    {[id |-> "a", permalink |-> "/r/a", title |-> <<"$","A","A">>,
      selftext |-> <<>>, ups |-> 99, num_comments |-> 3],
     [id |-> "b", permalink |-> "/r/b", title |-> <<"T","T">>,
      selftext |-> <<"A","A"," ","T","T">>, ups |-> 100, num_comments |-> 7],
     [id |-> "c", permalink |-> "/r/c", title |-> <<"x"," ","A","T">>,
      selftext |-> <<>>, ups |-> 0, num_comments |-> 0],
     [id |-> "d", permalink |-> "/r/d", title |-> <<"$","T","T">>,
      selftext |-> <<>>, ups |-> 99, num_comments |-> 1]}

RawPost(id) == CHOOSE p \in RawPosts : p.id = id

\* the listings a subreddit may serve: nothing, one post with a cashtag, a
\* post without ticker followed by a post with two tickers
FeedBodies == {<<>>, <<RawPost("a")>>, <<RawPost("c"), RawPost("b")>>}

Subs == SeqRange(TrendingSubreddits)

\* the quote fetches of one batch end alike (b), but for at most one
\* symbol (x, ending as o; NoSymbol for none)
NoSymbol == <<>>

QuoteEnv(symbols, x, o, b) == [sym \in symbols |-> IF sym = x THEN o ELSE b]

NotStarted == [status |-> "none", value |-> <<>>]

PassReset ==
    /\ respKinds' = [sub \in Subs |-> "none"]
    /\ postsArrays' = [sub \in Subs |-> NotStarted]
    /\ tt' = NotStarted
    /\ path' = "none"
    /\ topTickers' = <<>>
    /\ quoteEnv' = <<>>
    /\ enriched' = <<>>
    /\ result' = NotStarted

Init ==
    /\ arg = <<>> /\ ret = <<>> /\ step = "off" /\ stored = <<>>
    /\ now = 0
    /\ cache = <<>>
    /\ feed \in [Subs -> FeedBodies]
    /\ pc = "idle"
    /\ calls = 0
    /\ respKinds = [sub \in Subs |-> "none"]
    /\ postsArrays = [sub \in Subs |-> NotStarted]
    /\ tt = NotStarted
    /\ path = "none"
    /\ topTickers = <<>>
    /\ quoteEnv = <<>>
    /\ enriched = <<>>
    /\ result = NotStarted
    /\ quoted = <<>>

\* time passes between passes and while a feed request is out
Tick ==
    /\ \/ pc = "idle"
       \/ pc = "feeds" /\ \E sub \in Subs : postsArrays[sub].status = "pending"
    /\ now + TickStep <= MaxTime
    /\ now' = now + TickStep
    /\ UNCHANGED <<cache, feed, pc, calls, respKinds, postsArrays, tt, path,
                   topTickers, quoteEnv, enriched, result, quoted>>
    /\ UNCHANGED pureVars

\* the cache after the cache.get of every key of keys
RECURSIVE CacheAfterGets(_, _, _)
CacheAfterGets(c, keys, t) ==
    IF keys = {} THEN c
    ELSE LET k == CHOOSE k \in keys : TRUE
         IN  CacheAfterGets(CacheAfterGet(c, k, t), keys \ {k}, t)

\* getTrendingStocks() -> getTrendingTickers(['wallstreetbets','stocks'], 50)
\* up to its first await: the trending key is looked up; on a miss
\* fetchSubredditPosts starts for every subreddit, each looking up its key
\* and sending its request on a miss
CallGetTrendingStocks ==
    /\ pc = "idle"
    /\ calls < MaxCalls
    /\ LET tkey == trendingKey(TrendingSubreddits)
       IN  IF CacheHit(cache, tkey, now)
           THEN /\ tt' = Fulfilled(cache[tkey].v)
                /\ pc' = "trending"
                /\ UNCHANGED <<cache, respKinds, postsArrays>>
           ELSE /\ tt' = Pending
                /\ pc' = "feeds"
                /\ postsArrays' =
                      [sub \in Subs |->
                          IF CacheHit(cache, redditKey(sub, PostLimit), now)
                          THEN Fulfilled(cache[redditKey(sub, PostLimit)].v)
                          ELSE Pending]
                /\ respKinds' =
                      [sub \in Subs |->
                          IF CacheHit(cache, redditKey(sub, PostLimit), now)
                          THEN "cached" ELSE "none"]
                /\ cache' = CacheAfterGets(cache,
                               {tkey} \cup {redditKey(sub, PostLimit) : sub \in Subs},
                               now)
    /\ result' = Pending
    /\ UNCHANGED <<now, feed, calls, path, topTickers, quoteEnv, enriched, quoted>>
    /\ UNCHANGED pureVars

\* the request of one subreddit ends and fetchSubredditPosts resumes
FeedSettle ==
    /\ pc = "feeds"
    /\ \E sub \in Subs, kind \in RespKinds :
        /\ postsArrays[sub].status = "pending"
        /\ LET r == FetchCatch(FetchTry(kind, feed[sub]))
           IN  /\ cache' = IF r.store
                           THEN CacheSet(cache, redditKey(sub, PostLimit), r.value, now)
                           ELSE cache
               /\ respKinds' = [respKinds EXCEPT ![sub] = kind]
               /\ IF r.rejected
                  THEN \* Promise.all rejects; the catch of getTrendingTickers
                       /\ postsArrays' = [postsArrays EXCEPT ![sub] = Rejected]
                       /\ tt' = Fulfilled(<<>>)
                       /\ pc' = "trending"
                  ELSE /\ postsArrays' = [postsArrays EXCEPT ![sub] = Fulfilled(r.value)]
                       /\ UNCHANGED <<tt, pc>>
    /\ UNCHANGED <<now, feed, calls, path, topTickers, quoteEnv, enriched, result,
                   quoted>>
    /\ UNCHANGED pureVars

\* postsArrays.flat(), in the order of the subreddits
RECURSIVE Flat(_, _)
Flat(arrays, subs) ==
    IF Len(subs) = 0 THEN <<>>
    ELSE arrays[subs[1]].value \o Flat(arrays, Tail(subs))

\* Promise.all of getTrendingTickers fulfils: flatten, aggregate, cache
FeedsJoin ==
    /\ pc = "feeds"
    /\ \A sub \in Subs : postsArrays[sub].status = "fulfilled"
    /\ LET trending == aggregateMentions(Flat(postsArrays, TrendingSubreddits))
       IN  /\ cache' = CacheSet(cache, trendingKey(TrendingSubreddits), trending, now)
           /\ tt' = Fulfilled(trending)
    /\ pc' = "trending"
    /\ UNCHANGED <<now, feed, calls, respKinds, postsArrays, path, topTickers,
                   quoteEnv, enriched, result, quoted>>
    /\ UNCHANGED pureVars

\* getTrendingStocks resumes with no Reddit data, or in its outer catch:
\* getDefaultTrendingStocks runs the quote fetches of the default symbols,
\* none of which waits for anything but the others, and its promise is the
\* one getTrendingStocks returns
GetDefaultTrendingStocks ==
    /\ \/ pc = "trending" /\ UseDefault(tt.value)
       \/ pc = "caught"
    /\ \E x \in SeqRange(defaultSymbols) \cup {NoSymbol},
          o \in QuoteOutcomes, b \in QuoteOutcomes :
        LET env == QuoteEnv(SeqRange(defaultSymbols), x, o, b)
            stocks == [i \in 1 .. Len(defaultSymbols) |->
                          DefaultMapper(defaultSymbols[i], env[defaultSymbols[i]])]
        IN  /\ quoteEnv' = env
            /\ enriched' = [i \in 1 .. Len(stocks) |-> stocks[i].value]
            /\ result' = IF \E i \in 1 .. Len(stocks) : stocks[i].rejected
                         THEN Rejected
                         ELSE Fulfilled(SelectSeq(
                                  [i \in 1 .. Len(stocks) |-> stocks[i].value],
                                  NotNullStock))
    /\ path' = "default"
    /\ topTickers' = <<>>
    /\ pc' = "done"
    /\ UNCHANGED <<now, cache, feed, calls, respKinds, postsArrays, tt, quoted>>
    /\ UNCHANGED pureVars

\* getTrendingStocks resumes with Reddit data: the top tickers are cut and
\* their quote fetches start
BranchReddit ==
    /\ pc = "trending"
    /\ ~UseDefault(tt.value)
    /\ path' = "reddit"
    /\ topTickers' = TopSlice(tt.value)
    /\ LET symbols == {tt.value[i].ticker : i \in 1 .. Len(TopSlice(tt.value))}
       IN  \E x \in symbols \cup {NoSymbol}, o \in QuoteOutcomes, b \in QuoteOutcomes :
               quoteEnv' = QuoteEnv(symbols, x, o, b)
    /\ enriched' = <<>>
    /\ pc' = "quotes"
    /\ UNCHANGED <<now, cache, feed, calls, respKinds, postsArrays, tt, result,
                   quoted>>
    /\ UNCHANGED pureVars

\* the quote fetch of the next candidate settles and its mapper returns
QuoteSettle ==
    /\ pc = "quotes"
    /\ Len(enriched) < Len(topTickers)
    /\ LET item == topTickers[Len(enriched) + 1]
           r == EnrichMapper(item, quoteEnv[item.ticker])
       IN  IF r.rejected
           THEN \* Promise.all rejects; the outer catch of getTrendingStocks
                /\ pc' = "caught"
                /\ UNCHANGED enriched
           ELSE /\ enriched' = Append(enriched, r.value)
                /\ UNCHANGED pc
    /\ UNCHANGED <<now, cache, feed, calls, respKinds, postsArrays, tt, path,
                   topTickers, quoteEnv, result, quoted>>
    /\ UNCHANGED pureVars

\* Promise.all of the quote batch fulfils: filter, sort, return
QuotesJoin ==
    /\ pc = "quotes"
    /\ Len(enriched) = Len(topTickers)
    /\ result' = Fulfilled(FilterAndSort(enriched))
    /\ pc' = "done"
    /\ UNCHANGED <<now, cache, feed, calls, respKinds, postsArrays, tt, path,
                   topTickers, quoteEnv, enriched, quoted>>
    /\ UNCHANGED pureVars

\* the caller has the result; the quote fetches of the pass are entered in
\* the history (no time passes between the fetches and the return); the next
\* pass may start
Return ==
    /\ pc = "done"
    /\ pc' = "idle"
    /\ calls' = calls + 1
    /\ quoted' = [sym \in DOMAIN quoted \cup DOMAIN quoteEnv |->
                      IF sym \in DOMAIN quoteEnv THEN now ELSE quoted[sym]]
    /\ PassReset
    /\ UNCHANGED <<now, cache, feed>>
    /\ UNCHANGED pureVars

Next ==
    \/ Tick
    \/ CallGetTrendingStocks
    \/ FeedSettle
    \/ FeedsJoin
    \/ GetDefaultTrendingStocks
    \/ BranchReddit
    \/ QuoteSettle
    \/ QuotesJoin
    \/ Return

Spec == Init /\ [][Next]_vars

(***************************************************************************)
(* Properties of the pipeline.                                             *)
(***************************************************************************)
FeedFailed(sub) == respKinds[sub] \in {"network", "http429"}

QuoteOf(symbol) == quoteEnv[symbol]

RedditDone == pc = "done" /\ path = "reddit"

\* C1: getTrendingTickers and getTrendingStocks never reject and, once
\* settled, are fulfilled with a list, whatever the feed requests and the
\* quote fetches did
C1_NeverRejects ==
    /\ tt.status # "rejected"
    /\ result.status # "rejected"
    /\ (pc \in {"trending", "quotes", "done"} =>
            tt.status = "fulfilled" /\ tt.value \in Seq(SeqRange(tt.value)))
    /\ (pc = "done" =>
            result.status = "fulfilled"
            /\ result.value \in Seq(SeqRange(result.value)))

\* a pass that ended although one feed request and one quote fetch failed
\* while the other feed request and another quote fetch succeeded
C1_Witness ==
    /\ pc = "done"
    /\ result.status = "fulfilled"
    /\ \E s1, s2 \in Subs : FeedFailed(s1) /\ respKinds[s2] = "ok"
    /\ \E y1, y2 \in DOMAIN quoteEnv : QuoteOf(y1) = "reject" /\ QuoteOf(y2) # "reject"

\* C2: when getTrendingTickers yields no aggregate, getTrendingStocks
\* returns the entries of the default symbols whose quote fetch succeeded,
\* in the order of the list and with source yahoo_default; the result is
\* not empty when a quote fetch succeeded
C2_EmptyTrendingFallsBack ==
    (pc = "done" /\ tt.value = <<>>) =>
        /\ path = "default"
        /\ result.status = "fulfilled"
        /\ [i \in 1 .. Len(result.value) |-> result.value[i].symbol]
              = SelectSeq(defaultSymbols, LAMBDA y : QuoteOf(y) # "reject")
        /\ \A i \in 1 .. Len(result.value) : result.value[i].source = "yahoo_default"
        /\ ((\E y \in SeqRange(defaultSymbols) : QuoteOf(y) # "reject")
                => Len(result.value) > 0)

\* both feed requests failed, one default quote was rejected, the nine
\* others are returned
C2_Witness ==
    /\ pc = "done"
    /\ tt.value = <<>>
    /\ \A sub \in Subs : FeedFailed(sub)
    /\ \E y \in SeqRange(defaultSymbols) : QuoteOf(y) = "reject"
    /\ Len(result.value) = Len(defaultSymbols) - 1

\* the price a fulfilled quote carries
PriceOfOutcome(o) ==
    CASE o = "stub"    -> JsNull
      [] o = "priced"  -> JsNumber(100)
      [] o = "partial" -> JsUndefined

\* C3: in the batch of getTrendingStocks every candidate whose quote fetch
\* rejects keeps its entry, with price, change, changePercent and marketCap
\* null and source reddit_only; the batch is not aborted, and the entries of
\* the other candidates are those of their own quotes
C3_RejectedQuoteKeepsEntry ==
    /\ pc # "caught"
    /\ (pc = "quotes" \/ RedditDone) =>
        /\ RedditDone => Len(enriched) = Len(topTickers)
        /\ \A i \in 1 .. Len(enriched) :
            LET item == topTickers[i]
                e == enriched[i]
            IN  /\ e.symbol = item.ticker
                /\ e.mentions = item.mentions
                /\ e.socialScore = item.score
                /\ e.topPost = item.topPost
                /\ QuoteOf(item.ticker) = "reject" =>
                      /\ e.price = JsNull /\ e.change = JsNull
                      /\ e.changePercent = JsNull /\ e.marketCap = JsNull
                      /\ e.source = "reddit_only"
                /\ QuoteOf(item.ticker) # "reject" =>
                      /\ e.price = PriceOfOutcome(QuoteOf(item.ticker))
                      /\ e.source = "reddit_yahoo"

\* two candidates enriched, the quote of the first rejected, the quote of
\* the second with a price
C3_Witness ==
    /\ RedditDone
    /\ Len(enriched) = 2
    /\ QuoteOf(topTickers[1].ticker) = "reject"
    /\ QuoteOf(topTickers[2].ticker) = "priced"
    /\ enriched[1].source = "reddit_only"
    /\ enriched[2].source = "reddit_yahoo"

\* C4: on the Reddit path the returned list holds exactly the enriched
\* candidates whose price is not null, each once, in non-increasing order
\* of socialScore
C4_PricedCandidatesSorted ==
    RedditDone =>
        /\ result.status = "fulfilled"
        /\ SeqRange(result.value) = {e \in SeqRange(enriched) : e.price # JsNull}
        /\ Len(result.value) = Cardinality(SeqRange(result.value))
        /\ \A i, j \in 1 .. Len(result.value) :
              i < j => result.value[i].socialScore >= result.value[j].socialScore

\* two candidates enriched, one without price left out, the other returned
C4_Witness ==
    /\ RedditDone
    /\ Len(enriched) = 2
    /\ Len(result.value) = 1
    /\ result.value[1].price = JsNumber(100)

\* C5: every entry getTrendingStocks returns has a price, whichever path
\* produced it and whatever fields the quote carried
C5_EveryReturnedEntryPriced ==
    (pc = "done" /\ result.status = "fulfilled") =>
        \A i \in 1 .. Len(result.value) : result.value[i].price.t = "number"

\* C13: a pass of getTrendingStocks fetches no quote for a symbol whose
\* quote an earlier pass fetched less than 600 s (the TTL of the cache) ago
C13_NoQuoteRefetchWithinTtl ==
    \A sym \in DOMAIN quoteEnv \cap DOMAIN quoted : ~(now < quoted[sym] + stdTTL)

\* the posts of the listing of sub that mention ticker
MentionsIn(sub, ticker) ==
    Cardinality({i \in 1 .. Len(feed[sub]) :
                    InSeq(ticker, ProcessPost(feed[sub][i]).tickers)})

\* the mentions of ticker in the listings whose request succeeded
MentionsFetched(ticker) ==
    SumSeq([k \in 1 .. Len(TrendingSubreddits) |->
               IF respKinds[TrendingSubreddits[k]] = "ok"
               THEN MentionsIn(TrendingSubreddits[k], ticker) ELSE 0])

FeedTickers ==
    UNION {UNION {SeqRange(ProcessPost(feed[sub][i]).tickers) :
                  i \in 1 .. Len(feed[sub])} : sub \in Subs}

\* C14: a feed request that fails (network error or status not OK) makes
\* fetchSubredditPosts fulfil with no posts, never reject, and when all
\* requests of a pass have ended getTrendingTickers returns exactly the
\* tickers of the listings whose request succeeded, with their mentions
C14_FailedFeedGivesNoPosts ==
    /\ \A sub \in Subs :
          /\ postsArrays[sub].status # "rejected"
          /\ FeedFailed(sub) => postsArrays[sub] = Fulfilled(<<>>)
    /\ (pc = "trending" /\ \E sub \in Subs : respKinds[sub] # "none") =>
          /\ tt.status = "fulfilled"
          /\ \A sub \in Subs : respKinds[sub] \in RespKinds
          /\ {tt.value[i].ticker : i \in 1 .. Len(tt.value)}
                = {ticker \in FeedTickers : MentionsFetched(ticker) > 0}
          /\ \A i \in 1 .. Len(tt.value) :
                tt.value[i].mentions = MentionsFetched(tt.value[i].ticker)

\* the request of one subreddit failed, the two tickers of the listing of
\* the other are aggregated
C14_Witness ==
    /\ pc = "trending"
    /\ \E s1, s2 \in Subs :
          /\ FeedFailed(s1) /\ Len(feed[s1]) > 0
          /\ respKinds[s2] = "ok"
    /\ Len(tt.value) = 2

\* title, a space, selftext of a child of a listing
CombinedText(child) == child.title \o <<" ">> \o child.selftext

\* how often sym stands in text as a cashtag or as a bare token
TimesIn(text, sym) ==
    Cardinality({i \in 1 .. Len(text) : CashtagTokenAt(text, i, sym)})
    + Cardinality({i \in 1 .. Len(text) :
                      sym \notin EXCLUDED_WORDS /\ Len(sym) >= 2
                      /\ BareTokenAt(text, i, sym)})

\* the runs of upper-case letters of the texts of the listings
FeedSymbols ==
    UNION {UNION {{sym \in Pieces(CombinedText(feed[sub][i])) : AllUpper(sym)} :
                  i \in 1 .. Len(feed[sub])} : sub \in Subs}

\* the posts that mention sym, over the listings whose request succeeded
PostsMentioning(sym) ==
    SumSeq([k \in 1 .. Len(TrendingSubreddits) |->
               LET sub == TrendingSubreddits[k]
               IN  IF respKinds[sub] = "ok"
                   THEN Cardinality({i \in 1 .. Len(feed[sub]) :
                                        TimesIn(CombinedText(feed[sub][i]), sym) > 0})
                   ELSE 0])

\* C21: in the pipeline from the listings to the aggregates, every symbol
\* has as many mentions as there are posts whose title and body hold it,
\* however often a post holds it, and a symbol no post holds has no entry;
\* so a post without ticker adds nothing
C21_OneMentionPerPost ==
    (pc = "trending" /\ \E sub \in Subs : respKinds[sub] # "none") =>
        /\ \A i \in 1 .. Len(tt.value) :
              /\ tt.value[i].ticker \in FeedSymbols
              /\ tt.value[i].mentions = PostsMentioning(tt.value[i].ticker)
        /\ \A sym \in FeedSymbols :
              PostsMentioning(sym) = 0 =>
                  \A i \in 1 .. Len(tt.value) : tt.value[i].ticker # sym

\* a listing of a post without ticker and a post that holds TT twice and AA
\* once, the other listing one post with AA: TT has 1 mention, AA has 2
C21_Witness ==
    /\ pc = "trending"
    /\ \A sub \in Subs : respKinds[sub] = "ok"
    /\ \E sub \in Subs :
          /\ Len(feed[sub]) = 2
          /\ TimesIn(CombinedText(feed[sub][1]), TT) = 0
          /\ TimesIn(CombinedText(feed[sub][1]), AA) = 0
          /\ TimesIn(CombinedText(feed[sub][2]), TT) = 2
    /\ \E i, j \in 1 .. Len(tt.value) :
          /\ tt.value[i].ticker = TT /\ tt.value[i].mentions = 1
          /\ tt.value[j].ticker = AA /\ tt.value[j].mentions = 2

\* C6: when there are Reddit candidates and the quote fetch of every one of
\* them fails, getTrendingStocks fulfils with the empty list and no error
\* is raised
C6_AllQuotesFailGivesEmpty ==
    /\ (pc = "caught" => \E i \in 1 .. Len(topTickers) :
                            QuoteOf(topTickers[i].ticker) # "reject")
    /\ (RedditDone /\ Len(topTickers) > 0
            /\ \A i \in 1 .. Len(topTickers) : QuoteOf(topTickers[i].ticker) = "reject")
        => result = Fulfilled(<<>>)

\* two candidates, both quotes rejected, the empty list returned
C6_Witness ==
    /\ RedditDone
    /\ Len(topTickers) = 2
    /\ \A i \in 1 .. Len(topTickers) : QuoteOf(topTickers[i].ticker) = "reject"
    /\ Len(enriched) = 2
    /\ result = Fulfilled(<<>>)

(***************************************************************************)
(* The cached operations called on their own: fetchSubredditPosts(         *)
(* subreddit, limit), as the discussions route of server.js calls it, and  *)
(* getTrendingTickers(subreddits, limit).  One call runs at a time; time   *)
(* passes between calls and while the feed requests are out.               *)
(***************************************************************************)
MaxCacheCalls == 3

\* the limits the callers ask for: one post, and the 50 of getTrendingStocks
Limits == {1, PostLimit}

SubredditLists == {<<"wallstreetbets">>, <<"wallstreetbets", "stocks">>}

\* the calls made: the discussions of one subreddit, the trending tickers of
\* one or two subreddits
CachedCalls ==
    {[op |-> "reddit", subs |-> <<"wallstreetbets">>, limit |-> l] : l \in Limits}
    \cup {[op |-> "trending", subs |-> subs, limit |-> l] :
             subs \in SubredditLists, l \in Limits}

\* cacheKey of the operation called
KeyOf(c) ==
    IF c.op = "reddit" THEN redditKey(c.subs[1], c.limit) ELSE trendingKey(c.subs)

\* hot.json?limit=${Math.min(limit, 100)}: Reddit serves the first children
\* of the listing, as many as asked for
Served(children, limit) ==
    LET n == IF limit < 100 THEN limit ELSE 100
    IN  SubSeq(children, 1, IF Len(children) < n THEN Len(children) ELSE n)

\* the listings of this specification: a post without ticker followed by a
\* post with two tickers; one post with a cashtag
CacheFeed ==
    [sub \in Subs |-> IF sub = "wallstreetbets" THEN <<RawPost("c"), RawPost("b")>>
                      ELSE <<RawPost("a")>>]

NoCall == [op |-> "none", subs |-> <<>>, limit |-> 0, at |-> 0, prev |-> <<>>]

NoCachedRet == [value |-> <<>>, hit |-> FALSE]

\* the entry of the history for one cache.set: the value, when and by which
\* call it was stored, when that call was made, and since when Reddit had
\* sent the oldest listing the value is made from
StoredSet(h, key, value, t, subs, limit, asked, since) ==
    [k \in DOMAIN h \cup {key} |->
        IF k = key THEN [v |-> value, at |-> t, by |-> [subs |-> subs, limit |-> limit],
                         asked |-> asked, since |-> since]
        ELSE h[k]]

Min(a, b) == IF a <= b THEN a ELSE b

\* when Reddit sent the oldest of the listings the posts under way are made
\* from (t for the subreddits whose request failed: they give no data)
RECURSIVE OldestListing(_, _, _, _, _)
OldestListing(h, kinds, subs, limit, t) ==
    IF Len(subs) = 0 THEN t
    ELSE LET rest == OldestListing(h, kinds, Tail(subs), limit, t)
         IN  IF kinds[subs[1]] \in {"ok", "cached"}
             THEN Min(h[redditKey(subs[1], limit)].since, rest)
             ELSE rest

CallReset ==
    /\ arg' = NoCall
    /\ ret' = NoCachedRet
    /\ respKinds' = [sub \in Subs |-> "none"]
    /\ postsArrays' = [sub \in Subs |-> NotStarted]

InitCache ==
    /\ arg = NoCall
    /\ ret = NoCachedRet
    /\ step = "ready"
    /\ stored = <<>>
    /\ now = 0
    /\ cache = <<>>
    /\ feed = CacheFeed
    /\ pc = "off"
    /\ calls = 0
    /\ respKinds = [sub \in Subs |-> "none"]
    /\ postsArrays = [sub \in Subs |-> NotStarted]
    /\ tt = <<>>
    /\ path = "none"
    /\ topTickers = <<>>
    /\ quoteEnv = <<>>
    /\ enriched = <<>>
    /\ result = <<>>
    /\ quoted = <<>>

CacheTick ==
    /\ \/ step = "ready"
       \/ step = "feeds" /\ \E sub \in Subs : postsArrays[sub].status = "pending"
    /\ now + TickStep <= MaxTime
    /\ now' = now + TickStep
    /\ UNCHANGED <<arg, ret, step, stored, cache, feed, pc, calls, respKinds,
                   postsArrays, tt, path, topTickers, quoteEnv, enriched, result,
                   quoted>>

\* fetchSubredditPosts(subreddit, limit) or getTrendingTickers(subreddits,
\* limit) up to its first await: the key of the operation is looked up; on
\* a miss fetchSubredditPosts sends its request, getTrendingTickers starts
\* fetchSubredditPosts for every subreddit, each looking up its own key
CallCached ==
    /\ step = "ready"
    /\ calls < MaxCacheCalls
    /\ \E c \in CachedCalls :
        LET key == KeyOf(c)
            rkey(sub) == redditKey(sub, c.limit)
        IN  /\ arg' = [op |-> c.op, subs |-> c.subs, limit |-> c.limit,
                       at |-> now, prev |-> stored]
            /\ IF CacheHit(cache, key, now)
               THEN /\ ret' = [value |-> cache[key].v, hit |-> TRUE]
                    /\ step' = "returned"
                    /\ cache' = CacheAfterGet(cache, key, now)
                    /\ UNCHANGED <<respKinds, postsArrays>>
               ELSE /\ ret' = NoCachedRet
                    /\ step' = "feeds"
                    /\ postsArrays' =
                          [sub \in Subs |->
                              IF sub \notin SeqRange(c.subs) THEN NotStarted
                              ELSE IF c.op = "trending" /\ CacheHit(cache, rkey(sub), now)
                              THEN Fulfilled(cache[rkey(sub)].v)
                              ELSE Pending]
                    /\ respKinds' =
                          [sub \in Subs |->
                              IF /\ sub \in SeqRange(c.subs)
                                 /\ c.op = "trending"
                                 /\ CacheHit(cache, rkey(sub), now)
                              THEN "cached" ELSE "none"]
                    /\ cache' = CacheAfterGets(cache,
                                   {key} \cup {rkey(sub) : sub \in SeqRange(c.subs)}, now)
    /\ UNCHANGED <<stored, now, feed, pc, calls, tt, path, topTickers, quoteEnv,
                   enriched, result, quoted>>

\* the request of one subreddit ends and fetchSubredditPosts resumes; called
\* on its own it returns to the caller
CachedFeedSettle ==
    /\ step = "feeds"
    /\ \E sub \in Subs, kind \in RespKinds :
        /\ postsArrays[sub].status = "pending"
        /\ LET r == FetchCatch(FetchTry(kind, Served(feed[sub], arg.limit)))
               rkey == redditKey(sub, arg.limit)
           IN  /\ cache' = IF r.store THEN CacheSet(cache, rkey, r.value, now)
                           ELSE cache
               /\ stored' = IF r.store
                            THEN StoredSet(stored, rkey, r.value, now, <<sub>>, arg.limit,
                                           arg.at, now)
                            ELSE stored
               /\ respKinds' = [respKinds EXCEPT ![sub] = kind]
               /\ postsArrays' = [postsArrays EXCEPT ![sub] =
                                     IF r.rejected THEN Rejected ELSE Fulfilled(r.value)]
               /\ IF arg.op = "reddit" \/ r.rejected
                  THEN /\ ret' = [value |-> r.value, hit |-> FALSE]
                       /\ step' = "returned"
                  ELSE UNCHANGED <<ret, step>>
    /\ UNCHANGED <<arg, now, feed, pc, calls, tt, path, topTickers, quoteEnv,
                   enriched, result, quoted>>

\* Promise.all of getTrendingTickers fulfils: flatten, aggregate, cache
CachedFeedsJoin ==
    /\ step = "feeds"
    /\ arg.op = "trending"
    /\ \A sub \in SeqRange(arg.subs) : postsArrays[sub].status = "fulfilled"
    /\ LET trending == aggregateMentions(Flat(postsArrays, arg.subs))
       IN  /\ cache' = CacheSet(cache, trendingKey(arg.subs), trending, now)
           /\ stored' = StoredSet(stored, trendingKey(arg.subs), trending, now,
                                  arg.subs, arg.limit, arg.at,
                                  OldestListing(stored, respKinds, arg.subs,
                                                arg.limit, now))
           /\ ret' = [value |-> trending, hit |-> FALSE]
    /\ step' = "returned"
    /\ UNCHANGED <<arg, now, feed, pc, calls, respKinds, postsArrays, tt, path,
                   topTickers, quoteEnv, enriched, result, quoted>>

\* the caller has the value; the next call may start
CachedReturn ==
    /\ step = "returned"
    /\ step' = "ready"
    /\ calls' = calls + 1
    /\ CallReset
    /\ UNCHANGED <<stored, now, cache, feed, pc, tt, path, topTickers, quoteEnv,
                   enriched, result, quoted>>

NextCache ==
    \/ CacheTick
    \/ CallCached
    \/ CachedFeedSettle
    \/ CachedFeedsJoin
    \/ CachedReturn

SpecCache == InitCache /\ [][NextCache]_vars

(***************************************************************************)
(* Properties of the cached operations.                                    *)
(***************************************************************************)
\* fetchSubredditPosts(sub, arg.limit) of the call under way returned the
\* value of the cache
FetchServedFromCache(sub) ==
    \/ arg.op = "reddit" /\ arg.subs = <<sub>> /\ step = "returned" /\ ret.hit
    \/ respKinds[sub] = "cached"

\* it sent its request to Reddit
FetchWentUpstream(sub) ==
    postsArrays[sub].status = "pending" \/ respKinds[sub] \in RespKinds

\* what it returned
FetchValue(sub) == IF arg.op = "reddit" THEN ret.value ELSE postsArrays[sub].value

\* the last cache.set of its key before the call
StoredBefore(sub) == arg.prev[redditKey(sub, arg.limit)]

HadStored(sub) ==
    /\ FetchServedFromCache(sub) \/ FetchWentUpstream(sub)
    /\ redditKey(sub, arg.limit) \in DOMAIN arg.prev

\* C11 as stated: a call of fetchSubredditPosts at time u for a key last
\* stored at time t returns the stored value without a request to Reddit
\* when u < t + 600, and sends a request when u >= t + 600
C11_MissFromTtlOn ==
    \A sub \in Subs :
        HadStored(sub) =>
            LET t == StoredBefore(sub).at
                u == arg.at
            IN  /\ u < t + stdTTL =>
                      /\ FetchServedFromCache(sub) /\ ~FetchWentUpstream(sub)
                      /\ FetchValue(sub) = StoredBefore(sub).v
                /\ u >= t + stdTTL =>
                      ~FetchServedFromCache(sub) /\ FetchWentUpstream(sub)

\* C11 amended: a call of fetchSubredditPosts at time u for a key last
\* stored at time t returns the stored value without a request to Reddit
\* when u <= t + 600, and sends a request when u > t + 600, however many
\* calls were served from the cache in between
C11_MissAfterTtl ==
    \A sub \in Subs :
        HadStored(sub) =>
            LET t == StoredBefore(sub).at
                u == arg.at
            IN  /\ u <= t + stdTTL =>
                      /\ FetchServedFromCache(sub) /\ ~FetchWentUpstream(sub)
                      /\ FetchValue(sub) = StoredBefore(sub).v
                /\ u > t + stdTTL =>
                      ~FetchServedFromCache(sub) /\ FetchWentUpstream(sub)

\* the third call for a key: the value was stored at 0, and after a call in
\* between the call 600 s after the store is still served from the cache
C11_Witness ==
    /\ step = "returned"
    /\ arg.op = "reddit"
    /\ calls = 2
    /\ HadStored(arg.subs[1])
    /\ arg.at = StoredBefore(arg.subs[1]).at + stdTTL
    /\ FetchServedFromCache(arg.subs[1])
    /\ ret.value = StoredBefore(arg.subs[1]).v

\* C12: a call of fetchSubredditPosts or getTrendingTickers that is served
\* from the cache gets a value that a call with the same parameters
\* (subreddit or subreddits, limit) stored
C12_NoSharedEntry ==
    /\ (step = "returned" /\ ret.hit) =>
          arg.prev[KeyOf(arg)].by = [subs |-> arg.subs, limit |-> arg.limit]
    /\ \A sub \in Subs :
          respKinds[sub] = "cached" =>
              StoredBefore(sub).by = [subs |-> <<sub>>, limit |-> arg.limit]

\* what fetchSubredditPosts(sub, limit) returns when its request succeeds
PostsRecovered(sub, limit) == FetchTry("ok", Served(feed[sub], limit)).value

\* what the call c returns when every request it needs succeeds
RecoveredValue(c) ==
    IF c.op = "reddit" THEN PostsRecovered(c.subs[1], c.limit)
    ELSE aggregateMentions(
             Flat([sub \in Subs |-> Fulfilled(PostsRecovered(sub, c.limit))], c.subs))

\* C24: a failed feed request is never memoized: a call of
\* fetchSubredditPosts or getTrendingTickers that is served what a call with
\* the same parameters stored gets the data of the listings, never the
\* empty or partial list left by a request that failed
C24_FailureNotMemoized ==
    /\ (step = "returned" /\ ret.hit
           /\ arg.prev[KeyOf(arg)].by = [subs |-> arg.subs, limit |-> arg.limit]) =>
          ret.value = RecoveredValue(arg)
    /\ \A sub \in Subs :
          (respKinds[sub] = "cached"
              /\ StoredBefore(sub).by = [subs |-> <<sub>>, limit |-> arg.limit]) =>
              postsArrays[sub].value = PostsRecovered(sub, arg.limit)

\* C25: a list getTrendingTickers returns at time u is made only of
\* listings Reddit sent no more than 600 s before u, whether the list comes
\* from the cache of the trending lists, from the cache of the posts or
\* from requests of the call (stated for the calls that return at the time
\* they are made and, when served from the cache, for the lists stored by
\* such a call, so that no slow request accounts for the age)
C25_NotOlderThanTtl ==
    (/\ step = "returned" /\ arg.op = "trending" /\ arg.at = now
     /\ ret.hit => stored[KeyOf(arg)].asked = stored[KeyOf(arg)].at) =>
        LET since == IF ret.hit THEN stored[KeyOf(arg)].since
                     ELSE OldestListing(stored, respKinds, arg.subs, arg.limit, now)
        IN  now <= since + stdTTL

(***************************************************************************)
(* getTrendingStocks from the return of getTrendingTickers on, against     *)
(* listings that mention up to MaxTopTickers tickers.                      *)
(***************************************************************************)
MaxTopTickers == 17

Letters ==
    <<"A","B","C","D","E","F","G","H","I","J","K","L","M",
      "N","O","P","Q","R","S","T","U","V","W","X","Y","Z">>

\* the k-th post of the listing: the cashtag of a ticker of its own, and 0,
\* 9 or 99 upvotes in turn
TopUps(k) == IF k % 3 = 1 THEN 0 ELSE IF k % 3 = 2 THEN 9 ELSE 99

TopRawPost(k) ==
    [id |-> Letters[k], permalink |-> "/r/q", title |-> <<"$", "Q", Letters[k]>>,
     selftext |-> <<>>, ups |-> TopUps(k), num_comments |-> 0]

InitTop ==
    /\ arg = <<>> /\ ret = <<>> /\ step = "off" /\ stored = <<>>
    /\ now = 0
    /\ cache = <<>>
    /\ feed = [sub \in Subs |-> <<>>]
    /\ pc = "idle"
    /\ calls = 0
    /\ respKinds = [sub \in Subs |-> "none"]
    /\ postsArrays = [sub \in Subs |-> NotStarted]
    /\ tt = NotStarted
    /\ path = "none"
    /\ topTickers = <<>>
    /\ quoteEnv = <<>>
    /\ enriched = <<>>
    /\ result = NotStarted
    /\ quoted = <<>>

\* one more post is on the listing of the first subreddit
TopAddPost ==
    /\ pc = "idle"
    /\ Len(feed[TrendingSubreddits[1]]) < MaxTopTickers
    /\ feed' = [feed EXCEPT ![TrendingSubreddits[1]] =
                   Append(@, TopRawPost(Len(@) + 1))]
    /\ UNCHANGED <<now, cache, pc, calls, respKinds, postsArrays, tt, path,
                   topTickers, quoteEnv, enriched, result, quoted>>
    /\ UNCHANGED pureVars

\* getTrendingStocks() up to the return of getTrendingTickers, every feed
\* request answered: the aggregates of the listings
TopTrending ==
    /\ pc = "idle"
    /\ respKinds' = [sub \in Subs |-> "ok"]
    /\ postsArrays' = [sub \in Subs |-> Fulfilled(FetchTry("ok", feed[sub]).value)]
    /\ tt' = Fulfilled(aggregateMentions(
                 Flat([sub \in Subs |-> Fulfilled(FetchTry("ok", feed[sub]).value)],
                      TrendingSubreddits)))
    /\ result' = Pending
    /\ pc' = "trending"
    /\ UNCHANGED <<now, cache, feed, calls, path, topTickers, quoteEnv, enriched,
                   quoted>>
    /\ UNCHANGED pureVars

NextTop ==
    \/ TopAddPost
    \/ TopTrending
    \/ GetDefaultTrendingStocks
    \/ BranchReddit
    \/ QuoteSettle
    \/ QuotesJoin

SpecTop == InitTop /\ [][NextTop]_vars

\* the place of a symbol in the list getTrendingTickers returned, 0 if none
RankOf(symbol) ==
    IF \E i \in 1 .. Len(tt.value) : tt.value[i].ticker = symbol
    THEN CHOOSE i \in 1 .. Len(tt.value) : tt.value[i].ticker = symbol
    ELSE 0

\* the cut at n: the candidates are the first n aggregates (all of them
\* when there are fewer), no other symbol has its quote fetched, none of
\* the aggregates left out has a larger score than a candidate, and the
\* result has at most n entries, all of them among the first n aggregates
CutAt(n) ==
    (path = "reddit") =>
        /\ Len(topTickers) = (IF Len(tt.value) < n THEN Len(tt.value) ELSE n)
        /\ \A i \in 1 .. Len(topTickers) : topTickers[i] = tt.value[i]
        /\ \A sym \in DOMAIN quoteEnv : RankOf(sym) >= 1 /\ RankOf(sym) <= n
        /\ \A i \in 1 .. Len(topTickers) : \A j \in 1 .. Len(tt.value) :
              j > n => tt.value[i].score >= tt.value[j].score
        /\ pc = "done" =>
              /\ Len(result.value) <= n
              /\ \A i \in 1 .. Len(result.value) :
                    /\ RankOf(result.value[i].symbol) >= 1
                    /\ RankOf(result.value[i].symbol) <= n

\* the values N may be configured to
ConfigurableTops == 1 .. TopCount

\* C15 as stated: getTrendingStocks enriches only the top N aggregates,
\* for the N it is configured with (15 by default); the function takes no
\* parameter and reads no setting, so one pass is the pass of every N
C15_TopNConfigurable == \A n \in ConfigurableTops : CutAt(n)

\* C15 amended: getTrendingStocks enriches only the top 15 aggregates of
\* the list getTrendingTickers returns (all of them when there are fewer):
\* no ticker ranked below the 15th has its quote fetched or appears in the
\* result, and the result has at most 15 entries
C15_TopFifteen == CutAt(TopCount)

\* seventeen aggregates, the two last left out, fifteen entries returned
C15_Witness ==
    /\ RedditDone
    /\ Len(tt.value) = 17
    /\ Len(topTickers) = TopCount
    /\ Len(result.value) = TopCount
    /\ tt.value[1].score > tt.value[TopCount + 1].score
    /\ \A i \in 1 .. Len(result.value) :
          result.value[i].symbol # tt.value[TopCount + 1].ticker

(***************************************************************************)
(* One pass of getTrendingStocks with the order in which the fetches of    *)
(* the two batches settle made explicit: arg records the order of arrival  *)
(* (arg.feeds the subreddits, arg.quotes the places of the candidates),    *)
(* ret holds the mappers of the quote batch that have returned, by place.  *)
(***************************************************************************)
\* the listings of this specification: one post with AA, a post without
\* ticker followed by a post with TT and AA, one post with TT; the posts
\* with 99 upvotes give their tickers the same score
OrderBodies == {<<RawPost("a")>>, <<RawPost("c"), RawPost("b")>>, <<RawPost("d")>>}

NoArrivals == [feeds |-> <<>>, quotes |-> <<>>]

InitOrder ==
    /\ arg = NoArrivals /\ ret = <<>> /\ step = "off" /\ stored = <<>>
    /\ now = 0
    /\ cache = <<>>
    /\ feed \in [Subs -> OrderBodies]
    /\ pc = "idle"
    /\ calls = 0
    /\ respKinds = [sub \in Subs |-> "none"]
    /\ postsArrays = [sub \in Subs |-> NotStarted]
    /\ tt = NotStarted
    /\ path = "none"
    /\ topTickers = <<>>
    /\ quoteEnv = <<>>
    /\ enriched = <<>>
    /\ result = NotStarted
    /\ quoted = <<>>

\* the request of any subreddit still out ends and fetchSubredditPosts
\* resumes
OrderFeedSettle ==
    /\ pc = "feeds"
    /\ \E sub \in Subs, kind \in RespKinds :
        /\ postsArrays[sub].status = "pending"
        /\ arg' = [arg EXCEPT !.feeds = Append(@, sub)]
        /\ LET r == FetchCatch(FetchTry(kind, feed[sub]))
           IN  /\ cache' = IF r.store
                           THEN CacheSet(cache, redditKey(sub, PostLimit), r.value, now)
                           ELSE cache
               /\ respKinds' = [respKinds EXCEPT ![sub] = kind]
               /\ IF r.rejected
                  THEN \* Promise.all rejects; the catch of getTrendingTickers
                       /\ postsArrays' = [postsArrays EXCEPT ![sub] = Rejected]
                       /\ tt' = Fulfilled(<<>>)
                       /\ pc' = "trending"
                  ELSE /\ postsArrays' = [postsArrays EXCEPT ![sub] = Fulfilled(r.value)]
                       /\ UNCHANGED <<tt, pc>>
    /\ UNCHANGED <<ret, step, stored, now, feed, calls, path, topTickers, quoteEnv,
                   enriched, result, quoted>>

\* the quote fetch of any candidate still out settles and its mapper returns
OrderQuoteSettle ==
    /\ pc = "quotes"
    /\ \E i \in (1 .. Len(topTickers)) \ DOMAIN ret :
        LET r == EnrichMapper(topTickers[i], quoteEnv[topTickers[i].ticker])
        IN  /\ arg' = [arg EXCEPT !.quotes = Append(@, i)]
            /\ IF r.rejected
               THEN \* Promise.all rejects; the outer catch of getTrendingStocks
                    /\ pc' = "caught"
                    /\ UNCHANGED ret
               ELSE /\ ret' = [k \in DOMAIN ret \cup {i} |->
                                  IF k = i THEN r.value ELSE ret[k]]
                    /\ UNCHANGED pc
    /\ UNCHANGED <<step, stored, now, cache, feed, calls, respKinds, postsArrays,
                   tt, path, topTickers, quoteEnv, enriched, result, quoted>>

\* a slip of the join: the values in the order in which they arrived
PromiseAllArrival(settled, order) == [i \in 1 .. Len(order) |-> settled[order[i]]]

\* Promise.all once every promise is fulfilled: the values in the order of
\* the promises, whatever the order in which they settled
PromiseAll(settled, order) == [i \in 1 .. Len(order) |-> settled[i]]

\* Promise.all of the quote batch fulfils: filter, sort, return
OrderQuotesJoin ==
    /\ pc = "quotes"
    /\ DOMAIN ret = 1 .. Len(topTickers)
    /\ enriched' = PromiseAll(ret, arg.quotes)
    /\ result' = Fulfilled(FilterAndSort(PromiseAll(ret, arg.quotes)))
    /\ pc' = "done"
    /\ UNCHANGED <<now, cache, feed, calls, respKinds, postsArrays, tt, path,
                   topTickers, quoteEnv, quoted>>
    /\ UNCHANGED pureVars

NextOrder ==
    \/ CallGetTrendingStocks
    \/ OrderFeedSettle
    \/ FeedsJoin
    \/ GetDefaultTrendingStocks
    \/ BranchReddit
    \/ OrderQuoteSettle
    \/ OrderQuotesJoin

SpecOrder == InitOrder /\ [][NextOrder]_vars

\* the feed requests and the quote fetches of the pass that are still out
FeedsOut == {sub \in Subs : postsArrays[sub].status = "pending"}

QuotesOut ==
    IF path = "reddit" THEN (1 .. Len(topTickers)) \ DOMAIN ret ELSE {}

\* C22: within one pass the aggregation starts only when every feed
\* request of the batch has ended, well or not, and the filter and sort only
\* when every quote fetch of the batch has; no list is returned by
\* getTrendingTickers or getTrendingStocks while a fetch of its batch is out
C22_JoinAfterAllSettled ==
    /\ pc # "caught"
    /\ tt.status = "fulfilled" =>
          /\ FeedsOut = {}
          /\ \A sub \in Subs : respKinds[sub] \in RespKinds
    /\ path = "reddit" => FeedsOut = {}
    /\ result.status = "fulfilled" => FeedsOut = {} /\ QuotesOut = {}

\* a pass returned a list of two entries after the feed request of the
\* second subreddit ended first, one of the two failing, and the quote
\* fetch of the second candidate ended first
C22_Witness ==
    /\ pc = "done"
    /\ path = "reddit"
    /\ arg.feeds = <<TrendingSubreddits[2], TrendingSubreddits[1]>>
    /\ \E sub \in Subs : FeedFailed(sub)
    /\ arg.quotes = <<2, 1>>
    /\ Len(result.value) = 2

\* what fetchSubredditPosts gives for a request that ended as kind
PostsFor(sub, kind) ==
    IF kind = "ok"
    THEN SelectSeq([i \in 1 .. Len(feed[sub]) |-> ProcessPost(feed[sub][i])], HasTickers)
    ELSE <<>>

\* the list of getTrendingTickers as the outcomes of the feed requests
\* alone determine it
TrendingFor(kinds) ==
    aggregateMentions(PostsFor(TrendingSubreddits[1], kinds[TrendingSubreddits[1]])
                      \o PostsFor(TrendingSubreddits[2], kinds[TrendingSubreddits[2]]))

\* the list of getTrendingStocks as the candidates and the outcomes of
\* their quote fetches alone determine it
StocksFor(candidates, env) ==
    FilterAndSort([i \in 1 .. Len(candidates) |->
                      EnrichMapper(candidates[i], env[candidates[i].ticker]).value])

\* C23: the lists getTrendingTickers and getTrendingStocks return are those
\* the outcomes of the fetches determine, contents and order, in whatever
\* order the fetches of the two batches ended
C23_CompletionOrderIrrelevant ==
    /\ (tt.status = "fulfilled" /\ \A sub \in Subs : respKinds[sub] \in RespKinds) =>
          tt.value = TrendingFor(respKinds)
    /\ (pc = "done" /\ path = "reddit") =>
          result.value = StocksFor(TopSlice(TrendingFor(respKinds)), quoteEnv)

\* both batches ended in the reverse of the order in which they were
\* issued; the two tickers have the same score and both are returned, in
\* the order in which the listings were asked for
C23_Witness ==
    /\ pc = "done"
    /\ path = "reddit"
    /\ arg.feeds = <<TrendingSubreddits[2], TrendingSubreddits[1]>>
    /\ \A sub \in Subs : respKinds[sub] = "ok" /\ Len(feed[sub]) = 1
    /\ arg.quotes = <<2, 1>>
    /\ Len(result.value) = 2
    /\ result.value[1].socialScore = result.value[2].socialScore
    /\ result.value[1].symbol = ProcessPost(feed[TrendingSubreddits[1]][1]).tickers[1]
    /\ result.value[2].symbol = ProcessPost(feed[TrendingSubreddits[2]][1]).tickers[1]

SourcesOf(stocks) == {stocks[i].source : i \in 1 .. Len(stocks)}

\* C27: no entry getTrendingStocks returns has source reddit_only; a list
\* returned on the Reddit path holds reddit_yahoo entries only, a list
\* returned on the fallback path yahoo_default entries only
C27_NoRedditOnlyReturned ==
    (pc = "done" /\ result.status = "fulfilled") =>
        /\ "reddit_only" \notin SourcesOf(result.value)
        /\ path = "reddit" => SourcesOf(result.value) \subseteq {"reddit_yahoo"}
        /\ path = "default" => SourcesOf(result.value) \subseteq {"yahoo_default"}

\* of two candidates the one whose quote fetch was rejected became a
\* reddit_only entry and is left out, the other is returned
C27_Witness ==
    /\ pc = "done"
    /\ path = "reddit"
    /\ Len(enriched) = 2
    /\ "reddit_only" \in SourcesOf(enriched)
    /\ Len(result.value) = 1
    /\ SourcesOf(result.value) = {"reddit_yahoo"}

(***************************************************************************)
(* fetchSubredditPosts called by several requests at a time (the           *)
(* discussions route serves every HTTP request with a call of its own):    *)
(* arg, postsArrays and respKinds are kept by caller.                      *)
(***************************************************************************)
MaxClients == 2
MaxFlightCalls == 3

Clients == 1 .. MaxClients

NoFetch == [subreddit |-> "none", limit |-> 0]

\* the variables this specification leaves alone
flightRest == <<ret, step, stored, feed, pc, tt, path, topTickers, quoteEnv,
                enriched, result, quoted>>

InitFlight ==
    /\ arg = [c \in Clients |-> NoFetch]
    /\ ret = <<>> /\ step = "off" /\ stored = <<>>
    /\ now = 0
    /\ cache = <<>>
    /\ feed = CacheFeed
    /\ pc = "off"
    /\ calls = 0
    /\ respKinds = [c \in Clients |-> "none"]
    /\ postsArrays = [c \in Clients |-> NotStarted]
    /\ tt = <<>>
    /\ path = "none"
    /\ topTickers = <<>>
    /\ quoteEnv = <<>>
    /\ enriched = <<>>
    /\ result = <<>>
    /\ quoted = <<>>

FlightTick ==
    /\ now + TickStep <= MaxTime
    /\ now' = now + TickStep
    /\ UNCHANGED <<arg, cache, calls, respKinds, postsArrays>>
    /\ UNCHANGED flightRest

\* fetchSubredditPosts(subreddit, limit) up to its await: the key is looked
\* up; a hit returns the cached posts, a miss sends the request
FlightCall ==
    /\ calls < MaxFlightCalls
    /\ \E c \in Clients, sub \in Subs, limit \in Limits :
        /\ postsArrays[c].status = "none"
        /\ arg' = [arg EXCEPT ![c] = [subreddit |-> sub, limit |-> limit]]
        /\ IF CacheHit(cache, redditKey(sub, limit), now)
           THEN /\ postsArrays' = [postsArrays EXCEPT ![c] =
                                      Fulfilled(cache[redditKey(sub, limit)].v)]
                /\ respKinds' = [respKinds EXCEPT ![c] = "cached"]
           ELSE /\ postsArrays' = [postsArrays EXCEPT ![c] = Pending]
                /\ respKinds' = [respKinds EXCEPT ![c] = "none"]
        /\ cache' = CacheAfterGet(cache, redditKey(sub, limit), now)
    /\ calls' = calls + 1
    /\ UNCHANGED now
    /\ UNCHANGED flightRest

\* the request of one caller ends and its fetchSubredditPosts resumes
FlightSettle ==
    /\ \E c \in Clients, kind \in RespKinds :
        /\ postsArrays[c].status = "pending"
        /\ LET r == FetchCatch(FetchTry(kind, Served(feed[arg[c].subreddit],
                                                     arg[c].limit)))
           IN  /\ cache' = IF r.store
                           THEN CacheSet(cache,
                                         redditKey(arg[c].subreddit, arg[c].limit),
                                         r.value, now)
                           ELSE cache
               /\ respKinds' = [respKinds EXCEPT ![c] = kind]
               /\ postsArrays' = [postsArrays EXCEPT ![c] =
                                     IF r.rejected THEN Rejected ELSE Fulfilled(r.value)]
    /\ UNCHANGED <<arg, now, calls>>
    /\ UNCHANGED flightRest

\* the caller has its posts and may call again
FlightReturn ==
    /\ \E c \in Clients :
        /\ postsArrays[c].status \in {"fulfilled", "rejected"}
        /\ arg' = [arg EXCEPT ![c] = NoFetch]
        /\ postsArrays' = [postsArrays EXCEPT ![c] = NotStarted]
        /\ respKinds' = [respKinds EXCEPT ![c] = "none"]
    /\ UNCHANGED <<now, cache, calls>>
    /\ UNCHANGED flightRest

NextFlight ==
    \/ FlightTick
    \/ FlightCall
    \/ FlightSettle
    \/ FlightReturn

SpecFlight == InitFlight /\ [][NextFlight]_vars

\* C26: for every cache key at most one request to Reddit is out at any
\* time: a call of fetchSubredditPosts that arrives while the request of
\* another call with the same subreddit and limit is out sends none
C26_OneFetchInFlightPerKey ==
    \A c1, c2 \in Clients :
        (/\ postsArrays[c1].status = "pending"
         /\ postsArrays[c2].status = "pending"
         /\ arg[c1] = arg[c2]) => c1 = c2

(***************************************************************************)
(* The daily quota of the AI endpoints (server): dailyQuotaCache and       *)
(* dailyQuotaMiddleware(maxDaily), mounted on POST /ask and POST /api/chat.*)
(* cache is dailyQuotaCache, arg the last request, ret its answer, stored  *)
(* the history of the requests that passed the middleware, by IP.          *)
(***************************************************************************)
maxDaily == 2
MaxQuotaRequests == 5
MaxQuotaTime == 216000
QuotaStep == 43200

\* stdTTL of dailyQuotaCache: 24 hours
quotaTTL == 86400

ClientIps == {"10.0.0.1", "10.0.0.2"}

QuotaEndpoints == {"/ask", "/api/chat"}

\* a slip of the key: one counter per endpoint
quotaKeyPerEndpoint(ip, endpoint) == <<"daily", ip, endpoint>>

\* `daily_${ip}`, whatever the endpoint
quotaKey(ip, endpoint) == <<"daily", ip>>

\* dailyQuotaCache.get(key) || 0
QuotaCurrent(c, key, t) == IF CacheHit(c, key, t) THEN c[key].v ELSE 0

\* dailyQuotaCache.set(key, value): the expiry counts from the set
QuotaSet(c, key, value, t) ==
    [k \in DOMAIN c \cup {key} |->
        IF k = key THEN [v |-> value, t |-> t + quotaTTL] ELSE c[k]]

NoRequest == [ip |-> "none", endpoint |-> "none", at |-> 0, prev |-> <<>>]

NoResponse == [status |-> 0, next |-> FALSE]

\* the variables this specification leaves alone
quotaRest == <<step, feed, pc, respKinds, postsArrays, tt, path, topTickers,
               quoteEnv, enriched, result, quoted>>

InitQuota ==
    /\ arg = NoRequest
    /\ ret = NoResponse
    /\ step = "off"
    /\ stored = [ip \in ClientIps |-> <<>>]
    /\ now = 0
    /\ cache = <<>>
    /\ feed = <<>>
    /\ pc = "off"
    /\ calls = 0
    /\ respKinds = <<>>
    /\ postsArrays = <<>>
    /\ tt = <<>>
    /\ path = "none"
    /\ topTickers = <<>>
    /\ quoteEnv = <<>>
    /\ enriched = <<>>
    /\ result = <<>>
    /\ quoted = <<>>

QuotaTick ==
    /\ now + QuotaStep <= MaxQuotaTime
    /\ now' = now + QuotaStep
    /\ UNCHANGED <<arg, ret, stored, cache, calls>>
    /\ UNCHANGED quotaRest

\* the hourly check of dailyQuotaCache deletes the keys that have expired
QuotaSweep ==
    /\ \E k \in DOMAIN cache : cache[k].t < now
    /\ cache' = [k \in {j \in DOMAIN cache : ~(cache[j].t < now)} |-> cache[k]]
    /\ UNCHANGED <<arg, ret, stored, now, calls>>
    /\ UNCHANGED quotaRest

\* one request to /ask or /api/chat goes through the middleware, which
\* runs without suspension: 429, or the counter set and next()
QuotaRequest ==
    /\ calls < MaxQuotaRequests
    /\ \E ip \in ClientIps, endpoint \in QuotaEndpoints :
        LET key == quotaKey(ip, endpoint)
            current == QuotaCurrent(cache, key, now)
        IN  /\ arg' = [ip |-> ip, endpoint |-> endpoint, at |-> now, prev |-> cache]
            /\ IF current >= maxDaily
               THEN /\ ret' = [status |-> 429, next |-> FALSE]
                    /\ cache' = CacheAfterGet(cache, key, now)
                    /\ UNCHANGED stored
               ELSE /\ ret' = [status |-> 200, next |-> TRUE]
                    /\ cache' = QuotaSet(CacheAfterGet(cache, key, now), key,
                                         current + 1, now)
                    /\ stored' = [stored EXCEPT ![ip] =
                                     Append(@, [at |-> now, endpoint |-> endpoint])]
    /\ calls' = calls + 1
    /\ UNCHANGED now
    /\ UNCHANGED quotaRest

NextQuota ==
    \/ QuotaTick
    \/ QuotaSweep
    \/ QuotaRequest

SpecQuota == InitQuota /\ [][NextQuota]_vars

\* the requests of ip that passed within the 24 hours that begin at t
PassedFrom(ip, t) ==
    {j \in 1 .. Len(stored[ip]) :
        stored[ip][j].at >= t /\ stored[ip][j].at <= t + quotaTTL}

\* the counters of c that have not expired at t
LiveCounters(c, t) == [k \in {j \in DOMAIN c : ~(c[j].t < t)} |-> c[k]]

\* C29: for every IP at most maxDaily requests, /ask and /api/chat counted
\* together, pass the middleware within any 24 hours; a request that is
\* refused gets status 429, does not reach the handler and leaves the
\* counters as they were (value and expiry)
C29_DailyQuotaHolds ==
    /\ \A ip \in ClientIps : \A k \in 1 .. Len(stored[ip]) :
          Cardinality(PassedFrom(ip, stored[ip][k].at)) <= maxDaily
    /\ arg # NoRequest =>
          /\ ret.next <=> ret.status # 429
          /\ (~ret.next /\ now = arg.at) =>
                LiveCounters(cache, now) = LiveCounters(arg.prev, now)

\* an IP used its quota on the two endpoints, and its next request, on the
\* last second of the 24 hours of the counter, is refused
C29_Witness ==
    /\ arg # NoRequest
    /\ ret.status = 429
    /\ Len(stored[arg.ip]) = maxDaily
    /\ {stored[arg.ip][j].endpoint : j \in 1 .. Len(stored[arg.ip])} = QuotaEndpoints
    /\ arg.at = stored[arg.ip][Len(stored[arg.ip])].at + quotaTTL
    /\ now = arg.at
    /\ cache = arg.prev

(***************************************************************************)
(* fetchBiotechCompanies: the eight searches of Yahoo Finance one after    *)
(* the other, the duplicates removed, every company given its sectors, the *)
(* sort by score and the mapping of the sectors to the symbols.            *)
(* arg is the index of the next search term, stored is allCompanies, ret   *)
(* is what the call resolves with and step is "searching" | "returned".    *)
(* Strings that are searched for keywords are sequences of characters.     *)
(***************************************************************************)
MaxQuotesLen == 2
MaxCompanies == 4

PRIMARY_BIOTECH_KEYWORDS == <<
    <<"b","i","o","t","e","c","h">>,
    <<"b","i","o","t","e","c","h","n","o","l","o","g","y">>,
    <<"b","i","o","p","h","a","r","m","a","c","e","u","t","i","c","a","l">>,
    <<"b","i","o","p","h","a","r","m","a">>,
    <<"g","e","n","e","t","i","c"," ","e","n","g","i","n","e","e","r","i","n","g">>,
    <<"g","e","n","e"," ","t","h","e","r","a","p","y">>,
    <<"c","e","l","l"," ","t","h","e","r","a","p","y">>,
    <<"r","n","a">>,
    <<"m","r","n","a">>,
    <<"c","r","i","s","p","r">>,
    <<"g","e","n","o","m","i","c","s">>,
    <<"g","e","n","e"," ","e","d","i","t","i","n","g">> >>

LIFE_SCIENCES_KEYWORDS == <<
    <<"p","h","a","r","m","a","c","e","u","t","i","c","a","l">>,
    <<"p","h","a","r","m","a">>,
    <<"l","i","f","e"," ","s","c","i","e","n","c","e","s">>,
    <<"t","h","e","r","a","p","e","u","t","i","c","s">>,
    <<"d","i","a","g","n","o","s","t","i","c","s">>,
    <<"m","e","d","i","c","a","l"," ","d","e","v","i","c","e">>,
    <<"p","r","e","c","i","s","i","o","n"," ","m","e","d","i","c","i","n","e">>,
    <<"c","l","i","n","i","c","a","l"," ","r","e","s","e","a","r","c","h">>,
    <<"b","i","o","i","n","f","o","r","m","a","t","i","c","s">>,
    <<"i","m","m","u","n","o","l","o","g","y">>,
    <<"o","n","c","o","l","o","g","y">> >>

INFRASTRUCTURE_KEYWORDS == <<
    <<"l","a","b","o","r","a","t","o","r","y"," ","e","q","u","i","p","m","e","n","t">>,
    <<"r","e","s","e","a","r","c","h"," ","t","o","o","l","s">>,
    <<"l","a","b"," ","e","q","u","i","p","m","e","n","t">>,
    <<"c","r","o">>,
    <<"c","o","n","t","r","a","c","t"," ","r","e","s","e","a","r","c","h">>,
    <<"h","e","a","l","t","h"," ","d","a","t","a">>,
    <<"h","e","a","l","t","h","c","a","r","e"," ","a","i">>,
    <<"m","e","d","i","c","a","l"," ","a","i">>,
    <<"d","i","g","i","t","a","l"," ","h","e","a","l","t","h">> >>

ALL_KEYWORDS ==
    PRIMARY_BIOTECH_KEYWORDS \o LIFE_SCIENCES_KEYWORDS \o INFRASTRUCTURE_KEYWORDS

searchTerms == <<
    <<"b","i","o","t","e","c","h">>,
    <<"p","h","a","r","m","a","c","e","u","t","i","c","a","l">>,
    <<"b","i","o","p","h","a","r","m","a">>,
    <<"t","h","e","r","a","p","e","u","t","i","c","s">>,
    <<"g","e","n","o","m","i","c","s">>,
    <<"d","i","a","g","n","o","s","t","i","c","s">>,
    <<"m","e","d","i","c","a","l"," ","d","e","v","i","c","e">>,
    <<"l","i","f","e"," ","s","c","i","e","n","c","e","s">> >>

Capitals == <<"A","B","C","D","E","F","G","H","I","J","K","L","M","N","O","P","Q","R","S","T","U","V","W","X","Y","Z">>

Smalls == <<"a","b","c","d","e","f","g","h","i","j","k","l","m","n","o","p","q","r","s","t","u","v","w","x","y","z">>

\* String.prototype.toLowerCase
toLowerCase(text) ==
    [i \in 1 .. Len(text) |->
        IF text[i] \in UpperChars
        THEN Smalls[CHOOSE k \in 1 .. Len(Capitals) : Capitals[k] = text[i]]
        ELSE text[i]]

\* String.prototype.includes
includes(text, keyword) ==
    \E i \in 0 .. (Len(text) - Len(keyword)) :
        SubSeq(text, i + 1, i + Len(keyword)) = keyword

findMatchingKeywords(text, keywords) ==
    IF Len(text) = 0 THEN <<>>
    ELSE LET lowerText == toLowerCase(text)
         IN  SelectSeq(keywords,
                       LAMBDA keyword : includes(lowerText, toLowerCase(keyword)))

\* [longname, shortname, industryDisp, sectorDisp].join(' '); a field that
\* is missing is the empty string here and in the join
SearchText(q) ==
    JoinSpace(<<q.longname, q.shortname, q.industryDisp, q.sectorDisp>>)

\* what Yahoo Finance may list: a company that matches primary keywords
\* only, one of the life sciences that also matches "cro", one of the
\* primary sector that also matches "pharma", a second listing of that
\* symbol with another name and score, and a fund
YahooQuotes == {
    [quoteType |-> "EQUITY", symbol |-> "MRNA", longname |-> <<"M","o","d","e","r","n","a">>,
     shortname |-> <<>>, industryDisp |-> <<"B","i","o","t","e","c","h","n","o","l","o","g","y">>,
     sectorDisp |-> <<>>, score |-> 3],
    [quoteType |-> "EQUITY", symbol |-> "MGNX", longname |-> <<"M","a","c","r","o","G","e","n","i","c","s">>,
     shortname |-> <<>>, industryDisp |-> <<"P","h","a","r","m","a">>,
     sectorDisp |-> <<>>, score |-> 2],
    [quoteType |-> "EQUITY", symbol |-> "BPH", longname |-> <<"B","i","o","p","h","a","r","m","a">>,
     shortname |-> <<>>, industryDisp |-> <<>>,
     sectorDisp |-> <<>>, score |-> 3],
    [quoteType |-> "EQUITY", symbol |-> "BPH", longname |-> <<>>,
     shortname |-> <<"B"," ","P","h","a","r","m","a">>, industryDisp |-> <<>>,
     sectorDisp |-> <<>>, score |-> 0],
    [quoteType |-> "ETF", symbol |-> "XBI", longname |-> <<"B","i","o","t","e","c","h"," ","E","T","F">>,
     shortname |-> <<>>, industryDisp |-> <<>>,
     sectorDisp |-> <<>>, score |-> 5] }

\* the answers of the search endpoint: a status that is not ok, or the
\* quotes of the body
YahooResponses ==
    {[ok |-> FALSE, quotes |-> <<>>]} \cup
    {[ok |-> TRUE, quotes |-> qs] :
        qs \in UNION {[1 .. n -> YahooQuotes] : n \in 0 .. MaxQuotesLen}}

isRelevantCompany(quote) ==
    /\ quote.quoteType \in {"EQUITY", "equity"}
    /\ quote.symbol # ""
    /\ Len(findMatchingKeywords(SearchText(quote), ALL_KEYWORDS)) > 0

\* exchange and isYahooFinance, which nothing reads, are left out; the
\* quotes listed carry neither industry nor sector
cleanCompanyData(quote) ==
    [name |-> IF Len(quote.longname) > 0 THEN quote.longname
              ELSE IF Len(quote.shortname) > 0 THEN quote.shortname
              ELSE <<"U","n","k","n","o","w","n"," ","C","o","m","p","a","n","y">>,
     symbol |-> quote.symbol,
     quoteType |-> quote.quoteType,
     industry |-> IF Len(quote.industryDisp) > 0 THEN quote.industryDisp
                  ELSE <<"B","i","o","t","e","c","h","n","o","l","o","g","y">>,
     sector |-> IF Len(quote.sectorDisp) > 0 THEN quote.sectorDisp
                ELSE <<"H","e","a","l","t","h","c","a","r","e">>,
     score |-> quote.score,
     longname |-> quote.longname,
     shortname |-> quote.shortname,
     industryDisp |-> quote.industryDisp,
     sectorDisp |-> quote.sectorDisp]

\* the catch of searchYahooFinance turns every failure into []
searchYahooFinance(response) ==
    IF ~response.ok THEN <<>>
    ELSE LET relevant == SelectSeq(response.quotes, isRelevantCompany)
         IN  [i \in 1 .. Len(relevant) |-> cleanCompanyData(relevant[i])]

\* what a search resolves with, by the answer of the endpoint
SearchResults == [response \in YahooResponses |-> searchYahooFinance(response)]

\* a slip of removeDuplicates: nothing is filtered out
removeDuplicatesNone(companies) == companies

\* the filter with the Set seen: the first company of every symbol stays
removeDuplicates(companies) ==
    LET kept == {i \in 1 .. Len(companies) :
                    \A j \in 1 .. (i - 1) : companies[j].symbol # companies[i].symbol}
        nth(k) == CHOOSE i \in kept : Cardinality({j \in kept : j < i}) = k - 1
    IN  [k \in 1 .. Cardinality(kept) |-> companies[nth(k)]]

categorizeSectors(company) ==
    LET searchText == SearchText(company)
        primaryMatches == findMatchingKeywords(searchText, PRIMARY_BIOTECH_KEYWORDS)
        lifeSciences == findMatchingKeywords(searchText, LIFE_SCIENCES_KEYWORDS)
        infrastructure == findMatchingKeywords(searchText, INFRASTRUCTURE_KEYWORDS)
        primarySector ==
            IF Len(primaryMatches) > 0 THEN "Primary Biotech"
            ELSE IF Len(lifeSciences) > 0 THEN "Life Sciences"
            ELSE IF Len(infrastructure) > 0 THEN "Healthcare Infrastructure"
            ELSE "Other"
        primaryReason ==
            IF Len(primaryMatches) > 0
            THEN << <<"Primary biotech match", primaryMatches>> >>
            ELSE IF Len(lifeSciences) > 0
            THEN << <<"Life sciences match", lifeSciences>> >>
            ELSE IF Len(infrastructure) > 0
            THEN << <<"Infrastructure match", infrastructure>> >>
            ELSE <<>>
        fieldReason(field, reason) ==
            IF Len(field) > 0 /\ Len(findMatchingKeywords(field, ALL_KEYWORDS)) > 0
            THEN << <<reason, <<>> >> >>
            ELSE <<>>
    IN  [primarySector |-> primarySector,
         secondarySectors |->
            (IF primarySector # "Life Sciences" /\ Len(lifeSciences) > 0
             THEN <<"Life Sciences">> ELSE <<>>) \o
            (IF primarySector # "Healthcare Infrastructure" /\ Len(infrastructure) > 0
             THEN <<"Healthcare Infrastructure">> ELSE <<>>),
         matchReasons |->
            primaryReason \o fieldReason(company.industryDisp, "industry match")
                          \o fieldReason(company.sectorDisp, "sector match")]

\* the Map of names to counts, in insertion order, as {name, count}
RECURSIVE CountNames(_, _)
CountNames(names, m) ==
    IF Len(names) = 0 THEN m
    ELSE LET at == {k \in 1 .. Len(m) : m[k].name = Head(names)}
         IN  CountNames(Tail(names),
                 IF at = {} THEN Append(m, [name |-> Head(names), count |-> 1])
                 ELSE [k \in 1 .. Len(m) |->
                          IF k \in at THEN [m[k] EXCEPT !.count = @ + 1] ELSE m[k]])

SortByCount(m) == StableSortDesc(m, [k \in 1 .. Len(m) |-> m[k].count])

\* primarySector is never empty, so the fallbacks are not taken
extractUniqueSectors(companies) ==
    SortByCount(CountNames([i \in 1 .. Len(companies) |-> companies[i].primarySector],
                           <<>>))

\* industry is never empty after cleanCompanyData
extractUniqueIndustries(companies) ==
    SortByCount(CountNames([i \in 1 .. Len(companies) |-> companies[i].industry],
                           <<>>))

\* mappings[sector].push(symbol), the list created when it is missing
PushSymbol(mappings, sector, symbol) ==
    IF sector \in DOMAIN mappings
    THEN [mappings EXCEPT ![sector] = Append(@, symbol)]
    ELSE [s \in DOMAIN mappings \cup {sector} |->
             IF s = sector THEN <<symbol>> ELSE mappings[s]]

\* the forEach over secondarySectors: the push only if the list does not
\* include the symbol
RECURSIVE ForEachSecondary(_, _, _)
ForEachSecondary(mappings, sectors, symbol) ==
    IF Len(sectors) = 0 THEN mappings
    ELSE ForEachSecondary(
             IF Head(sectors) \in DOMAIN mappings
                /\ InSeq(symbol, mappings[Head(sectors)])
             THEN mappings
             ELSE PushSymbol(mappings, Head(sectors), symbol),
             Tail(sectors), symbol)

\* the forEach over the companies: the primary sector is pushed without a
\* look at the list
RECURSIVE ForEachCompany(_, _)
ForEachCompany(mappings, companies) ==
    IF Len(companies) = 0 THEN mappings
    ELSE LET company == Head(companies)
         IN  ForEachCompany(
                 ForEachSecondary(
                     PushSymbol(mappings, company.primarySector, company.symbol),
                     company.secondarySectors, company.symbol),
                 Tail(companies))

createSectorMappings(companies) == ForEachCompany(<<>>, companies)

\* what fetchBiotechCompanies resolves with once the searches are done
fetchBiotechCompanies(allCompanies) ==
    LET uniqueCompanies == removeDuplicates(allCompanies)
        enrichedCompanies ==
            [i \in 1 .. Len(uniqueCompanies) |->
                LET company == uniqueCompanies[i]
                    categorization == categorizeSectors(company)
                IN  [name |-> company.name,
                     symbol |-> company.symbol,
                     quoteType |-> company.quoteType,
                     industry |-> company.industry,
                     sector |-> company.sector,
                     score |-> company.score,
                     longname |-> company.longname,
                     shortname |-> company.shortname,
                     industryDisp |-> company.industryDisp,
                     sectorDisp |-> company.sectorDisp,
                     primarySector |-> categorization.primarySector,
                     secondarySectors |-> categorization.secondarySectors,
                     matchReasons |-> categorization.matchReasons]]
        sortedCompanies ==
            StableSortDesc(enrichedCompanies,
                [i \in 1 .. Len(enrichedCompanies) |-> enrichedCompanies[i].score])
    IN  [companies |-> sortedCompanies,
         sectors |-> extractUniqueSectors(sortedCompanies),
         industries |-> extractUniqueIndustries(sortedCompanies),
         sectorMappings |-> createSectorMappings(sortedCompanies),
         total |-> Len(sortedCompanies)]

NoCompanies == [companies |-> <<>>, sectors |-> <<>>, industries |-> <<>>,
                sectorMappings |-> <<>>, total |-> 0]

\* the variables this specification leaves alone
sectorsRest == <<now, cache, feed, pc, calls, respKinds, postsArrays, tt, path,
                 topTickers, quoteEnv, enriched, result, quoted>>

InitSectors ==
    /\ arg = 1
    /\ ret = NoCompanies
    /\ step = "searching"
    /\ stored = <<>>
    /\ now = 0
    /\ cache = <<>>
    /\ feed = <<>>
    /\ pc = "off"
    /\ calls = 0
    /\ respKinds = <<>>
    /\ postsArrays = <<>>
    /\ tt = <<>>
    /\ path = "none"
    /\ topTickers = <<>>
    /\ quoteEnv = <<>>
    /\ enriched = <<>>
    /\ result = <<>>
    /\ quoted = <<>>

\* one turn of the loop over searchTerms: the search is awaited and what it
\* resolves with is pushed onto allCompanies
SearchTerm ==
    /\ step = "searching"
    /\ arg <= Len(searchTerms)
    /\ \E response \in YahooResponses :
        /\ Len(stored) + Len(SearchResults[response]) <= MaxCompanies
        /\ stored' = stored \o SearchResults[response]
    /\ arg' = arg + 1
    /\ UNCHANGED <<ret, step>>
    /\ UNCHANGED sectorsRest

\* after the last search, without suspension, to the return
ReturnCompanies ==
    /\ step = "searching"
    /\ arg > Len(searchTerms)
    /\ ret' = fetchBiotechCompanies(stored)
    /\ step' = "returned"
    /\ UNCHANGED <<arg, stored>>
    /\ UNCHANGED sectorsRest

NextSectors ==
    \/ SearchTerm
    \/ ReturnCompanies

SpecSectors == InitSectors /\ [][NextSectors]_vars

\* no element of the sequence occurs at two places
NoRepeat(seq) ==
    \A i \in 1 .. Len(seq) : \A j \in 1 .. Len(seq) : seq[i] = seq[j] => i = j

SymbolsOf(companies) == [i \in 1 .. Len(companies) |-> companies[i].symbol]

\* C30: in what fetchBiotechCompanies resolves with, no symbol is twice in
\* companies and no symbol is twice in the list of a sector of
\* sectorMappings, whatever the searches listed and however often
C30_NoSymbolTwice ==
    step = "returned" =>
        /\ NoRepeat(SymbolsOf(ret.companies))
        /\ \A sector \in DOMAIN ret.sectorMappings :
              NoRepeat(ret.sectorMappings[sector])

\* the searches listed a symbol twice, the first time with the sector as a
\* secondary one and the second time as the primary one, and the list of
\* that sector holds a further symbol pushed as primary
C30_Witness ==
    /\ step = "returned"
    /\ \E i \in 1 .. Len(stored) : \E j \in (i + 1) .. Len(stored) :
          /\ stored[i].symbol = stored[j].symbol
          /\ categorizeSectors(stored[j]).primarySector
                \in {categorizeSectors(stored[i]).secondarySectors[k] :
                        k \in 1 .. Len(categorizeSectors(stored[i]).secondarySectors)}
          /\ Len(ret.sectorMappings[categorizeSectors(stored[j]).primarySector]) > 1

====
